---------------------------- MODULE Spec2Model ----------------------------
(***************************************************************************)
(* A model of the `home` store: the file-backed Core (core.rs), the        *)
(* covering index (covering.rs) and the IsoCore built on three Cores       *)
(* (isocore.rs), driven the way main.rs and the examples drive them.       *)
(*                                                                         *)
(* Byte strings are sequences.  A data message is a sequence of small      *)
(* numbers.  The text a node or a signature block serialises to is a       *)
(* sequence of lexical atoms (a hex string, "leaf", " ", "\n", a file      *)
(* name), so that to_bytes and from_bytes are real conversions.  blake3    *)
(* and ed25519 are symbolic: a digest is the tagged preimage.              *)
(***************************************************************************)
EXTENDS Integers, Sequences, FiniteSets, TLC

VARIABLES
    iso,        \* the IsoCore object of the running process (isocore.rs:140-146)
    fs,         \* the IsoCore directory on disk: isocore.info and the three core directories
    isoAux,     \* history of the IsoCore run: what was appended, the last call and its result
    core,       \* a stand-alone Core object (core.rs:59-65)
    dir,        \* the directory of the stand-alone Core
    coreAux,    \* history of the stand-alone Core run
    nd,         \* the NeoDiskWriter of the running process (neodisk.rs:107-115) and its file position
    ndFile,     \* the bytes of the NeoDisk file
    ndAux,      \* history of the NeoDisk run: the records appended, the flushes, the last call
    pk          \* a NeoPack run: the encoder buffer or the bytes under the reader, and the call made

vars == <<iso, fs, isoAux, core, dir, coreAux, nd, ndFile, ndAux, pk>>
isoVars == <<iso, fs, isoAux>>
coreVars == <<core, dir, coreAux>>
diskVars == <<nd, ndFile, ndAux>>
packVars == <<pk>>

-----------------------------------------------------------------------------
(* Bounds of the model *)

\* appends per store (9 appends complete the first branch node and add a second peak)
MaxLen == 9
\* appends that carry the second message instead of the first
MaxAlt == 1
\* stored messages a loaded store reads back per run
MaxReads == 1
\* restarts (the process ends, the next one loads the directory) per run
MaxLoads == 1
\* stored files an outsider rewrites per run
MaxTampers == 1
\* appends per stand-alone Core
MaxCoreLen == 3

(* Program constants *)

WIDTH == 8
FULL == 65535

-----------------------------------------------------------------------------
(* Generic helpers *)

Min(a, b) == IF a < b THEN a ELSE b

RECURSIVE Concat(_)
\* the concatenation of a sequence of sequences
Concat(ss) == IF ss = <<>> THEN <<>> ELSE Head(ss) \o Concat(Tail(ss))

RECURSIVE SplitOn(_, _)
\* the pieces of s between occurrences of sep (str::split)
SplitOn(s, sep) ==
    IF \A i \in 1..Len(s) : s[i] # sep THEN <<s>>
    ELSE LET i == CHOOSE k \in 1..Len(s) : s[k] = sep /\ \A j \in 1..(k-1) : s[j] # sep
         IN  <<SubSeq(s, 1, i - 1)>> \o SplitOn(SubSeq(s, i + 1, Len(s)), sep)

\* the results of the operations: err is "Ok" or the error's name
Ok(v) == [err |-> "Ok", val |-> v]
Err(e) == [err |-> e, val |-> <<>>]

-----------------------------------------------------------------------------
(* covering.rs *)

RECURSIVE map_loop(_, _, _, _)
map_loop(n, w, div, offset) ==
    IF div <= n
    THEN IF n \div div < w THEN offset + (n \div div)
         ELSE map_loop(n, w, div * w, offset + (n \div div))
    ELSE offset

\* a map_item_to_covering that counts the parents of height 1 alone
map_item_to_covering_flat(n, w) == n + (n \div w)

map_item_to_covering(n, w) == n + map_loop(n, w, w, 0)

RECURSIVE trailing_zeros(_)
\* u64::trailing_zeros
trailing_zeros(n) == IF n = 0 THEN 64 ELSE IF n % 2 = 1 THEN 0 ELSE 1 + trailing_zeros(n \div 2)

\* a count that finds no trailing zero digit
count_trailing_zeros_none(n, w) == 0

\* a count of the trailing zero bits, not divided by the bits of a base-w digit
count_trailing_zeros_bits(n, w) == IF n = 0 THEN 0 ELSE trailing_zeros(n)

count_trailing_zeros_base_w(n, w) ==
    IF n = 0 THEN 0 ELSE trailing_zeros(n) \div trailing_zeros(w)

RECURSIVE decode_loop(_, _, _)
decode_loop(y, w, n) ==
    LET start == map_item_to_covering(n, w)
        h_max == count_trailing_zeros_base_w(n + 1, w)
    IN  IF y < start THEN decode_loop(y, w, n - 1)
        ELSE IF y > start + h_max THEN decode_loop(y, w, n + 1)
        ELSE <<n, y - start>>

\* a decode_covering that takes every node for the leaf of its last item
decode_covering_leaf(y, w) == <<decode_loop(y, w, (y * (w - 1)) \div w)[1], 0>>

decode_covering(y, w) == decode_loop(y, w, (y * (w - 1)) \div w)

RECURSIVE pow(_, _)
pow(w, h) == IF h = 0 THEN 1 ELSE w * pow(w, h - 1)

\* the half-open item range [start, end) as the pair <<start, end>>
covering_range(y, w) ==
    LET d == decode_covering(y, w)
        end == d[1] + 1
    IN  <<end - pow(w, d[2]), end>>

\* the half-open covering range completed by item n, as <<start, end>>
coverings_for_item(n, w) ==
    LET start == map_item_to_covering(n, w)
        height == count_trailing_zeros_base_w(n + 1, w)
    IN  <<start, start + 1 + height>>

\* children_for_covering without the rev(): the children from the last to the first
children_for_covering_unreversed(y, w) ==
    LET d == decode_covering(y, w)
        n == d[1]
        h == d[2]
    IN  IF h = 0 THEN <<>>
        ELSE LET child_h == h - 1
                 stride == pow(w, child_h)
             IN  [i \in 1..w |->
                    map_item_to_covering(n - ((i - 1) * stride), w) + child_h]

children_for_covering(y, w) ==
    LET d == decode_covering(y, w)
        n == d[1]
        h == d[2]
    IN  IF h = 0 THEN <<>>
        ELSE LET child_h == h - 1
                 stride == pow(w, child_h)
             IN  [i \in 1..w |->
                    map_item_to_covering(n - ((w - i) * stride), w) + child_h]

RECURSIVE peaks_from(_, _, _, _)
\* the peaks of the leaves [done, len): the largest complete subtrees, left to right
peaks_from(done, len, w, h) ==
    IF done = len THEN <<>>
    ELSE IF done + pow(w, h) <= len
         THEN <<map_item_to_covering(done + pow(w, h) - 1, w) + h>>
              \o peaks_from(done + pow(w, h), len, w, h)
         ELSE peaks_from(done, len, w, h - 1)

RECURSIVE top_height(_, _, _)
top_height(len, w, h) == IF pow(w, h + 1) <= len THEN top_height(len, w, h + 1) ELSE h

get_peaks(len, w) == peaks_from(0, len, w, top_height(len, w, 0))

\* Coverings::leaf: the first covering an item completes is its leaf
leaf(coverings) == coverings[1]

\* CoveringId::to_verkle_id: the inner-log slot of a covering, a u16 message id
to_verkle_id(y) == y % (FULL + 1)

-----------------------------------------------------------------------------
(* key.rs *)

\* the key pairs of the run, as KeyPair::ephemeral makes them
KeyPairs == { [key_pub |-> "pubA", key_sec |-> "secA"],
              [key_pub |-> "pubB", key_sec |-> "secB"] }

\* the verifying key of a signing key (SigningKey::verifying_key)
verifying_key(sec) == (CHOOSE kp \in KeyPairs : kp.key_sec = sec).key_pub

\* blake3 as an ideal digest: the tagged preimage
hash(message) == <<"blake3", message>>

\* KeyPair::sign: the 64 signature bytes as one block
sign(kp, message) == <<"ed25519", kp.key_sec, message>>

\* KeyPair::verify, by the public key
verify(key_pub, message, signature) ==
    /\ signature[1] = "ed25519"
    /\ verifying_key(signature[2]) = key_pub
    /\ signature[3] = message

\* Hash::to_hex: the 64 hex characters as one atom of text
to_hex(h) == <<"hex", h>>

\* Hash::from_hex
from_hex(atom) == atom[2]

-----------------------------------------------------------------------------
(* core.rs *)

\* the file names of a directory are tuples; INFO_CORE is info.npk
INFO_CORE == <<"info.npk">>

\* the digits of format!("{:04x}")
hex4(n) == <<(n \div 4096) % 16, (n \div 256) % 16, (n \div 16) % 16, n % 16>>

\* MessageId::to_file_name: "{:04x}.bin"
to_file_name(id) == <<"name", hex4(id), ".bin">>

RECURSIVE from_str_radix(_, _)
\* u16::from_str_radix(_, 16) on a sequence of hex digits, acc the value so far
from_str_radix(digits, acc) ==
    IF digits = <<>> THEN acc
    ELSE from_str_radix(Tail(digits), acc * 16 + Head(digits))

NoFiles == [n \in {} |-> <<>>]

fs_read(d, name) == IF name \in DOMAIN d THEN Ok(d[name]) ELSE Err("Io")

fs_write(d, name, contents) ==
    [n \in DOMAIN d \cup {name} |-> IF n = name THEN contents ELSE d[n]]

\* Core::create (path TRUE) and Core::create_mem (path FALSE)
CoreCreate(path) ==
    [path |-> path, begin_flush |-> 0, cache |-> <<>>,
     messages |-> [i \in {} |-> <<0, 0>>], next_id |-> 0]

\* Core::write_size: the neopack map {version: u8 0xFF, size: u16}
write_size(size) == << <<"version", <<"U8", 255>>>>, <<"size", <<"U16", size>>>> >>

\* Core::read_size
read_size(d) ==
    LET file == fs_read(d, INFO_CORE)
        map == file.val
    IN  IF file.err # "Ok" THEN Err("Io")
        ELSE IF Len(map) < 1 \/ map[1][1] # "version" THEN Err("BadInfoSchema")
        ELSE IF map[1][2][1] # "U8" THEN Err("Neopack")
        ELSE IF map[1][2][2] # 255 THEN Err("BadInfoVersion")
        ELSE IF Len(map) < 2 \/ map[2][1] # "size" THEN Err("BadInfoSchema")
        ELSE IF map[2][2][1] # "U16" THEN Err("Neopack")
        ELSE IF Len(map) > 2 THEN Err("BadInfoSchema")
        ELSE Ok(map[2][2][2])

\* Core::load: the loaded core, in val
CoreLoad(d) ==
    LET size == read_size(d)
    IN  IF size.err # "Ok" THEN size
        ELSE Ok([CoreCreate(TRUE) EXCEPT !.begin_flush = size.val, !.next_id = size.val])

\* a flush that leaves the stored size as the previous flush wrote it
CoreFlush_stale(c, d) ==
    IF ~c.path THEN [core |-> c, dir |-> d, res |-> Ok(<<>>)]
    ELSE [core |-> [c EXCEPT !.begin_flush = c.next_id],
          dir |-> fs_write(d, INFO_CORE, write_size(c.begin_flush)),
          res |-> Ok(<<>>)]

\* Core::flush: the directory and the core after the call
CoreFlush(c, d) ==
    IF ~c.path THEN [core |-> c, dir |-> d, res |-> Ok(<<>>)]
    ELSE LET ids == {id \in DOMAIN c.messages : id >= c.begin_flush}
             names == {to_file_name(id) : id \in ids}
             id_of(n) == CHOOSE id \in ids : to_file_name(id) = n
             written == [n \in DOMAIN d \cup names |->
                           IF n \in names
                           THEN SubSeq(c.cache, c.messages[id_of(n)][1] + 1,
                                       c.messages[id_of(n)][2])
                           ELSE d[n]]
         IN  [core |-> [c EXCEPT !.begin_flush = c.next_id],
              dir |-> fs_write(written, INFO_CORE, write_size(c.next_id)),
              res |-> Ok(<<>>)]

\* Core::len
CoreLen(c) == c.next_id

\* a check that lets the id one past the end through
check_future_message_late(c, id) ==
    IF id > c.next_id THEN Err("FutureMessage") ELSE Ok(<<>>)

\* Core::check_future_message
check_future_message(c, id) ==
    IF id >= c.next_id THEN Err("FutureMessage") ELSE Ok(<<>>)

\* a cache_message that puts the new contents in front of the cached ones
cache_message_front(c, id, contents) ==
    IF id >= c.next_id THEN [core |-> c, res |-> Err("FutureMessage")]
    ELSE IF id \in DOMAIN c.messages THEN [core |-> c, res |-> Err("AlreadyCached")]
    ELSE [core |-> [c EXCEPT !.cache = contents \o c.cache,
                             !.messages = [i \in DOMAIN c.messages \cup {id} |->
                                             IF i = id THEN <<0, Len(contents)>>
                                             ELSE c.messages[i]]],
          res |-> Ok(<<>>)]

\* Core::cache_message: the core after the call and the result
cache_message(c, id, contents) ==
    IF check_future_message(c, id).err # "Ok"
    THEN [core |-> c, res |-> check_future_message(c, id)]
    ELSE IF id \in DOMAIN c.messages THEN [core |-> c, res |-> Err("AlreadyCached")]
    ELSE LET cache == c.cache \o contents
             range == <<Len(cache) - Len(contents), Len(cache)>>
         IN  [core |-> [c EXCEPT !.cache = cache,
                                 !.messages = [i \in DOMAIN c.messages \cup {id} |->
                                                 IF i = id THEN range ELSE c.messages[i]]],
              res |-> Ok(<<>>)]

\* Core::load_message
load_message(c, d, id) ==
    IF check_future_message(c, id).err # "Ok"
    THEN [core |-> c, res |-> check_future_message(c, id)]
    ELSE IF id \in DOMAIN c.messages THEN [core |-> c, res |-> Ok(<<>>)]
    ELSE IF ~c.path THEN [core |-> c, res |-> Ok(<<>>)]
    ELSE LET contents == fs_read(d, to_file_name(id))
         IN  IF contents.err # "Ok" THEN [core |-> c, res |-> contents]
             ELSE cache_message(c, id, contents.val)

\* an add_message that steps next_id twice
add_message_skip(c, contents) ==
    IF c.next_id = FULL THEN [core |-> c, res |-> Err("CoreFull")]
    ELSE LET id == c.next_id
             stepped == [c EXCEPT !.next_id = Min(id + 2, FULL)]
             cached == cache_message(stepped, id, contents)
         IN  IF cached.res.err # "Ok" THEN cached
             ELSE [core |-> cached.core, res |-> Ok(id)]

\* an add_message without the test for a full core
add_message_unguarded(c, contents) ==
    LET id == c.next_id
        stepped == [c EXCEPT !.next_id = Min(id + 1, FULL)]
        cached == cache_message(stepped, id, contents)
    IN  IF cached.res.err # "Ok" THEN cached
        ELSE [core |-> cached.core, res |-> Ok(id)]

\* Core::add_message: the id is in res.val
CoreAddMessage(c, contents) ==
    IF c.next_id = FULL THEN [core |-> c, res |-> Err("CoreFull")]
    ELSE LET id == c.next_id
             stepped == [c EXCEPT !.next_id = Min(id + 1, FULL)]
             cached == cache_message(stepped, id, contents)
         IN  IF cached.res.err # "Ok" THEN cached
             ELSE [core |-> cached.core, res |-> Ok(id)]

\* Core::get_contents after its load_message: the bytes are in res.val
get_contents_loaded(loaded, id) ==
    IF loaded.res.err # "Ok" THEN loaded
    ELSE IF id \in DOMAIN loaded.core.messages
         THEN [core |-> loaded.core,
               res |-> Ok(SubSeq(loaded.core.cache, loaded.core.messages[id][1] + 1,
                                 loaded.core.messages[id][2]))]
         ELSE [core |-> loaded.core, res |-> Err("NotCached")]

\* Core::get_contents: the core after the call, the bytes in res.val
get_contents(c, d, id) ==
    IF id >= c.next_id THEN [core |-> c, res |-> Err("FutureMessage")]
    ELSE get_contents_loaded(load_message(c, d, id), id)

-----------------------------------------------------------------------------
(* isocore.rs: the serialised forms *)

INFO_ISOCORE == <<"isocore.info">>

\* the atoms of a node's text
NL == <<"nl">>
SP == <<"sp">>
Word(w) == <<"word", w>>

\* VerkleNode::compute_hash: the digest of the children's digests, in order
compute_hash(node) == hash([i \in 1..Len(node.children) |-> node.children[i].hash])

\* VerkleNode::to_bytes
NodeToBytes(node) ==
    <<to_hex(compute_hash(node)), NL>>
    \o Concat([i \in 1..Len(node.children) |->
                 << Word(IF node.children[i].node_type = "Leaf" THEN "leaf" ELSE "branch"),
                    SP, to_hex(node.children[i].hash),
                    SP, to_file_name(node.children[i].index), NL >>])

\* str::lines: the pieces between line feeds, without the empty piece after the last one
lines(text) ==
    LET pieces == SplitOn(text, NL)
    IN  IF pieces[Len(pieces)] = <<>> THEN SubSeq(pieces, 1, Len(pieces) - 1) ELSE pieces

\* str::split_whitespace: the non-empty pieces between spaces
split_whitespace(line) == SelectSeq(SplitOn(line, SP), LAMBDA piece : piece # <<>>)

\* parse_child_line: the child is in val
parse_child_line(line) ==
    LET parts == split_whitespace(line)
    IN  IF Len(parts) # 3 THEN Err("NodeFormat")
        ELSE IF parts[1] \notin {<<Word("leaf")>>, <<Word("branch")>>} THEN Err("NodeType")
        ELSE IF Len(parts[3]) # 1 \/ parts[3][1][1] # "name" \/ Len(parts[3][1][2]) > 4
             THEN Err("MessageIdParse")
        ELSE Ok([node_type |-> IF parts[1] = <<Word("leaf")>> THEN "Leaf" ELSE "Branch",
                 hash |-> from_hex(parts[2][1]),
                 index |-> from_str_radix(parts[3][1][2], 0)])

\* VerkleNode::from_bytes: the first line is skipped, the children are parsed in order
NodeFromBytes(bytes) ==
    LET ls == SelectSeq(Tail(lines(bytes)), LAMBDA l : split_whitespace(l) # <<>>)
        parsed == [i \in 1..Len(ls) |-> parse_child_line(ls[i])]
        bad == {i \in 1..Len(ls) : parsed[i].err # "Ok"}
    IN  IF bytes = <<>> THEN Ok([children |-> <<>>])
        ELSE IF bad # {} THEN parsed[CHOOSE i \in bad : \A j \in bad : i <= j]
        ELSE Ok([children |-> [i \in 1..Len(ls) |-> parsed[i].val]])

\* SignatureBlock::to_bytes
SigToBytes(block) == <<to_hex(block.global_root), NL, <<"sig", block.signature>>>>

-----------------------------------------------------------------------------
(* isocore.rs: the store *)

\* IsoCore::create (path TRUE) and IsoCore::create_mem (path FALSE)
IsoCreate(path, signer) ==
    [path |-> path, signer |-> signer.key_pub,
     data_core |-> CoreCreate(path), verkle_core |-> CoreCreate(path),
     sig_core |-> CoreCreate(path)]

\* the directory IsoCore::create leaves: isocore.info holds the public key
FsCreate(signer) ==
    [root |-> fs_write(NoFiles, INFO_ISOCORE, <<signer.key_pub>>),
     data |-> NoFiles, verkle |-> NoFiles, sig |-> NoFiles]

\* IsoCore::load: the loaded store is in val.  The key is one block of 32 bytes.
IsoLoad(f) ==
    LET info == fs_read(f.root, INFO_ISOCORE)
        data == CoreLoad(f.data)
        verkle == CoreLoad(f.verkle)
        sig == CoreLoad(f.sig)
    IN  IF info.err # "Ok" THEN Err("Io")
        ELSE IF Len(info.val) # 1 THEN Err("NodeFormat")
        ELSE IF data.err # "Ok" THEN data
        ELSE IF verkle.err # "Ok" THEN verkle
        ELSE IF sig.err # "Ok" THEN sig
        ELSE Ok([path |-> TRUE, signer |-> info.val[1],
                 data_core |-> data.val, verkle_core |-> verkle.val, sig_core |-> sig.val])

\* IsoCore::len
IsoLen(i) == CoreLen(i.data_core)

\* IsoCore::get_node after get_contents: the node is parsed from the bytes read
get_node_bytes(i, bytes) ==
    IF bytes.res.err # "Ok"
    THEN [iso |-> [i EXCEPT !.verkle_core = bytes.core], res |-> bytes.res]
    ELSE [iso |-> [i EXCEPT !.verkle_core = bytes.core], res |-> NodeFromBytes(bytes.res.val)]

\* IsoCore::get_node after load_node
get_node_loaded(i, f, verkle_id, loaded) ==
    IF loaded.res.err # "Ok" THEN [iso |-> i, res |-> loaded.res]
    ELSE get_node_bytes(i, get_contents(loaded.core, f.verkle, verkle_id))

\* IsoCore::get_node (with load_node): the store after the call, the node in res.val
get_node(i, f, covering_id) ==
    get_node_loaded(i, f, to_verkle_id(covering_id),
                    load_message(i.verkle_core, f.verkle, to_verkle_id(covering_id)))

RECURSIVE build_children(_, _, _, _)

\* one turn of the loop of build_node, child_node the child just read
build_child(f, children_ids, acc, child_node) ==
    IF child_node.res.err # "Ok" THEN child_node
    ELSE build_children(child_node.iso, f, Tail(children_ids),
             Append(acc, [node_type |-> "Branch",
                          hash |-> compute_hash(child_node.res.val),
                          index |-> to_verkle_id(Head(children_ids))]))

\* the loop of build_node over the children still to read, acc the children built so far
build_children(i, f, children_ids, acc) ==
    IF children_ids = <<>> THEN [iso |-> i, res |-> Ok([children |-> acc])]
    ELSE build_child(f, children_ids, acc, get_node(i, f, Head(children_ids)))

\* IsoCore::build_node after children_for_covering
build_node_of(i, f, children_ids, leaf_hash, leaf_index) ==
    IF children_ids = <<>>
    THEN [iso |-> i,
          res |-> Ok([children |-> <<[node_type |-> "Leaf", hash |-> leaf_hash,
                                      index |-> leaf_index]>>])]
    ELSE build_children(i, f, children_ids, <<>>)

\* IsoCore::build_node
build_node(i, f, covering_id, leaf_hash, leaf_index) ==
    build_node_of(i, f, children_for_covering(covering_id, WIDTH), leaf_hash, leaf_index)

RECURSIVE add_nodes(_, _, _, _, _, _)

\* a turn of the loop that stores an empty record after the node
add_node_stored_twice(i, f, covering_id, last, msg_hash, data_index, added) ==
    IF added.res.err # "Ok"
    THEN [iso |-> [i EXCEPT !.verkle_core = added.core], res |-> added.res]
    ELSE add_nodes([i EXCEPT !.verkle_core = CoreAddMessage(added.core, <<>>).core], f,
                   covering_id + 1, last, msg_hash, data_index)

\* one turn of the loop of add_message, added the result of verkle_core.add_message
add_node_stored(i, f, covering_id, last, msg_hash, data_index, added) ==
    IF added.res.err # "Ok"
    THEN [iso |-> [i EXCEPT !.verkle_core = added.core], res |-> added.res]
    ELSE add_nodes([i EXCEPT !.verkle_core = added.core], f,
                   covering_id + 1, last, msg_hash, data_index)

\* one turn of the loop of add_message, node the result of build_node
add_node_built(f, covering_id, last, msg_hash, data_index, node) ==
    IF node.res.err # "Ok" THEN node
    ELSE add_node_stored(node.iso, f, covering_id, last, msg_hash, data_index,
                         CoreAddMessage(node.iso.verkle_core, NodeToBytes(node.res.val)))

\* the loop of add_message over the coverings [covering_id, last) the new item completes
add_nodes(i, f, covering_id, last, msg_hash, data_index) ==
    IF covering_id >= last THEN [iso |-> i, res |-> Ok(<<>>)]
    ELSE add_node_built(f, covering_id, last, msg_hash, data_index,
                        build_node(i, f, covering_id, msg_hash, data_index))

RECURSIVE bag_peaks(_, _, _, _)

\* one turn of the loop over the peaks, peak_node the peak just read
bag_peak(f, peaks, acc, peak_node) ==
    IF peak_node.res.err # "Ok" THEN peak_node
    ELSE bag_peaks(peak_node.iso, f, Tail(peaks), Append(acc, compute_hash(peak_node.res.val)))

\* the loop of add_message over the peaks still to read, acc the hashes so far
bag_peaks(i, f, peaks, acc) ==
    IF peaks = <<>> THEN [iso |-> i, res |-> Ok(acc)]
    ELSE bag_peak(f, peaks, acc, get_node(i, f, Head(peaks)))

\* an add_message that returns the global root without storing its signature block
add_message_unsigned(i, global_root, signed) ==
    [iso |-> i, res |-> Ok(global_root)]

\* add_message: the signature block is stored and the global root returned
add_message_signed(i, global_root, signed) ==
    IF signed.res.err # "Ok"
    THEN [iso |-> [i EXCEPT !.sig_core = signed.core], res |-> signed.res]
    ELSE [iso |-> [i EXCEPT !.sig_core = signed.core], res |-> Ok(global_root)]

\* add_message: the global root is signed
add_message_root(i, signer, global_root) ==
    add_message_signed(i, global_root,
        CoreAddMessage(i.sig_core,
            SigToBytes([global_root |-> global_root,
                        signature |-> sign(signer, global_root)])))

\* an add_message that signs the first peak alone
add_message_first_peak(signer, peaks) ==
    IF peaks.res.err # "Ok" THEN peaks
    ELSE add_message_root(peaks.iso, signer, hash(<<Head(peaks.res.val)>>))

\* add_message: the peaks are bagged
add_message_peaks(signer, peaks) ==
    IF peaks.res.err # "Ok" THEN peaks
    ELSE add_message_root(peaks.iso, signer, hash(peaks.res.val))

\* add_message: the nodes are stored
add_message_nodes(f, signer, nodes) ==
    IF nodes.res.err # "Ok" THEN nodes
    ELSE add_message_peaks(signer,
             bag_peaks(nodes.iso, f, get_peaks(IsoLen(nodes.iso), WIDTH), <<>>))

\* add_message: the coverings of the new item
add_message_item(i, f, signer, coverings, msg_hash, data_index) ==
    add_message_nodes(f, signer,
        add_nodes(i, f, coverings[1], coverings[2], msg_hash, data_index))

\* add_message: the message is in the data log
add_message_data(i, f, message, signer, data) ==
    IF data.res.err # "Ok" THEN [iso |-> [i EXCEPT !.data_core = data.core], res |-> data.res]
    ELSE add_message_item([i EXCEPT !.data_core = data.core], f, signer,
                          coverings_for_item(CoreLen(data.core) - 1, WIDTH),
                          hash(message), data.res.val)

\* an add_message that does not compare the signer's key
add_message_any_signer(i, f, message, signer) ==
    add_message_data(i, f, message, signer, CoreAddMessage(i.data_core, message))

\* IsoCore::add_message: the store after the call, the global root in res.val
IsoAddMessage(i, f, message, signer) ==
    IF signer.key_pub # i.signer THEN [iso |-> i, res |-> Err("SignerMismatch")]
    ELSE add_message_data(i, f, message, signer, CoreAddMessage(i.data_core, message))

\* a get_message that does not compare the hash
get_message_unchecked(i, expected_hash, data) ==
    [iso |-> [i EXCEPT !.data_core = data.core], res |-> data.res]

\* get_message: the data is read and its hash compared
get_message_data(i, expected_hash, data) ==
    IF data.res.err # "Ok" THEN [iso |-> [i EXCEPT !.data_core = data.core], res |-> data.res]
    ELSE IF hash(data.res.val) # expected_hash
         THEN [iso |-> [i EXCEPT !.data_core = data.core], res |-> Err("IntegrityError")]
    ELSE [iso |-> [i EXCEPT !.data_core = data.core], res |-> data.res]

\* get_message: data_core.load_message(data_id), then get_contents
get_message_loaded(i, f, data_id, expected_hash, loaded) ==
    IF loaded.res.err # "Ok" THEN [iso |-> i, res |-> loaded.res]
    ELSE get_message_data(i, expected_hash, get_contents(loaded.core, f.data, data_id))

\* get_message: the leaf node is read
get_message_leaf(f, leaf_node) ==
    IF leaf_node.res.err # "Ok" THEN leaf_node
    ELSE IF \/ Len(leaf_node.res.val.children) # 1
            \/ leaf_node.res.val.children[1].node_type # "Leaf"
         THEN [iso |-> leaf_node.iso, res |-> Err("NodeFormat")]
    ELSE get_message_loaded(leaf_node.iso, f, leaf_node.res.val.children[1].index,
                            leaf_node.res.val.children[1].hash,
                            load_message(leaf_node.iso.data_core, f.data,
                                         leaf_node.res.val.children[1].index))

\* a get_message that reads the leaf of the next item
get_message_next(i, f, item_id) ==
    get_message_leaf(f, get_node(i, f, leaf(coverings_for_item(item_id + 1, WIDTH))))

\* IsoCore::get_message: the store after the call, the message in res.val
IsoGetMessage(i, f, item_id) ==
    get_message_leaf(f, get_node(i, f, leaf(coverings_for_item(item_id, WIDTH))))

\* main.rs: the three flushes at the end of a run, in the order data, verkle, sig
IsoFlush(i, f) ==
    [iso |-> [i EXCEPT !.data_core = CoreFlush(i.data_core, f.data).core,
                       !.verkle_core = CoreFlush(i.verkle_core, f.verkle).core,
                       !.sig_core = CoreFlush(i.sig_core, f.sig).core],
     fs |-> [f EXCEPT !.data = CoreFlush(i.data_core, f.data).dir,
                      !.verkle = CoreFlush(i.verkle_core, f.verkle).dir,
                      !.sig = CoreFlush(i.sig_core, f.sig).dir]]

-----------------------------------------------------------------------------
(* The IsoCore run: create, append, read, flush, restart *)

\* the message most appends carry, and the others
MainMsg == <<1, 2>>
AltMsgs == {<<3>>}
Msgs == {MainMsg} \cup AltMsgs

\* the key pair the store is created with
Owner == CHOOSE kp \in KeyPairs : kp.key_pub = "pubA"

NoFs == [root |-> NoFiles, data |-> NoFiles, verkle |-> NoFiles, sig |-> NoFiles]

\* the value of iso while the process holds no store (a failed load)
NoIso == [path |-> FALSE, signer |-> "none", data_core |-> CoreCreate(FALSE),
          verkle_core |-> CoreCreate(FALSE), sig_core |-> CoreCreate(FALSE)]

IsoAuxInit ==
    [alive |-> TRUE,        \* the process holds a store
     orig |-> <<>>,         \* the messages of the successful appends the store holds, by item id
     add_err |-> "none",    \* the result of the last add_message on this object
     load_err |-> "none",   \* the result of the load that made this object
     loaded |-> <<0, 0, 0>>,  \* the sizes of the three logs that load read
     stage |-> 0,           \* how many of main's three flushes have run
     alts |-> 0, loads |-> 0, tampers |-> 0]

CoreAuxInit ==
    [alive |-> TRUE,      \* the process holds a core
     hist |-> <<>>,       \* the messages the log holds, by id
     ids |-> <<>>,        \* the ids add_message returned on this object, in call order
     base |-> 0,          \* len() of the object when it was created or loaded
     last |-> "create",   \* the last call
     last_res |-> "Ok",   \* what the last call returned: "Ok" or its error
     loads |-> 0]

CoreIdle == core = CoreCreate(FALSE) /\ dir = NoFiles /\ coreAux = CoreAuxInit

IsoIdle == iso = NoIso /\ fs = NoFs /\ isoAux = IsoAuxInit

\* no NeoDisk file is open and no NeoPack buffer is in use
DiskIdle == nd = <<>> /\ ndFile = <<>> /\ ndAux = <<>>
PackIdle == pk = <<>>

IsoInit ==
    /\ \E path \in BOOLEAN :
         /\ iso = IsoCreate(path, Owner)
         /\ fs = IF path THEN FsCreate(Owner) ELSE NoFs
    /\ isoAux = IsoAuxInit

Init == IsoInit /\ CoreIdle /\ DiskIdle /\ PackIdle

\* the history after add_message(message, _) returned r
AddMessageAux(message, r) ==
    [isoAux EXCEPT !.orig = IF r.res.err = "Ok" THEN Append(@, message) ELSE @,
                   !.add_err = r.res.err,
                   !.alts = IF message \in AltMsgs /\ r.res.err = "Ok" THEN @ + 1 ELSE @]

\* add_message(message, signer)
AddMessage ==
    \E message \in Msgs, signer \in KeyPairs :
        /\ isoAux.alive /\ isoAux.stage = 0
        /\ IsoLen(iso) < MaxLen
        /\ message \in AltMsgs => isoAux.alts < MaxAlt
        /\ LET r == IsoAddMessage(iso, fs, message, signer)
           IN  iso' = r.iso /\ isoAux' = AddMessageAux(message, r)
        /\ UNCHANGED <<fs, coreVars, diskVars, packVars>>

\* the data messages a loaded store has read back from its directory
ReadBack == {id \in DOMAIN iso.data_core.messages : id < isoAux.loaded[1]}

\* get_message(ItemId(item)); what it returns is read off IsoGetMessage in the state
GetMessage ==
    \E item \in 0..IsoLen(iso) :
        /\ isoAux.alive /\ isoAux.stage = 0
        /\ Cardinality(ReadBack) < MaxReads
        /\ iso' = IsoGetMessage(iso, fs, item).iso
        /\ UNCHANGED <<fs, isoAux, coreVars, diskVars, packVars>>

\* the end of main: data_core.flush(), verkle_core.flush(), sig_core.flush()
Flush ==
    /\ isoAux.alive /\ isoAux.stage = 0
    /\ iso.path
    /\ isoAux.loads < MaxLoads    \* only a later load reads what flush writes
    /\ LET r == IsoFlush(iso, fs)
       IN  iso' = r.iso /\ fs' = r.fs
    /\ UNCHANGED <<isoAux, coreVars, diskVars, packVars>>

\* the history after the process restarted and IsoCore::load returned r
LoadAux(r) ==
    [isoAux EXCEPT
        !.alive = (r.err = "Ok"),
        !.orig = IF r.err = "Ok" THEN SubSeq(@, 1, Min(Len(@), IsoLen(r.val))) ELSE <<>>,
        !.add_err = "none",
        !.load_err = r.err,
        !.loaded = IF r.err = "Ok"
                   THEN <<CoreLen(r.val.data_core), CoreLen(r.val.verkle_core),
                          CoreLen(r.val.sig_core)>>
                   ELSE <<0, 0, 0>>,
        !.stage = 0,
        !.loads = @ + 1]

\* the process ends and the next one calls IsoCore::load on the directory
Load ==
    /\ fs # NoFs
    /\ isoAux.loads < MaxLoads
    /\ LET r == IsoLoad(fs)
       IN  iso' = (IF r.err = "Ok" THEN r.val ELSE NoIso) /\ isoAux' = LoadAux(r)
    /\ UNCHANGED <<fs, coreVars, diskVars, packVars>>

Next == AddMessage \/ GetMessage \/ Flush \/ Load

Spec == Init /\ [][Next]_vars

-----------------------------------------------------------------------------
(* The same run with an outsider who rewrites a stored data message *)

\* the bytes of the file of data message k are replaced by different bytes
TamperData ==
    \E k \in 0..(MaxLen - 1), bytes \in Msgs :
        /\ isoAux.tampers < MaxTampers
        /\ to_file_name(k) \in DOMAIN fs.data
        /\ bytes # fs.data[to_file_name(k)]
        /\ fs' = [fs EXCEPT !.data = fs_write(@, to_file_name(k), bytes)]
        /\ isoAux' = [isoAux EXCEPT !.tampers = @ + 1]
        /\ UNCHANGED <<iso, coreVars, diskVars, packVars>>

NextTamper == AddMessage \/ GetMessage \/ Flush \/ Load \/ TamperData

SpecTamper == Init /\ [][NextTamper]_vars

-----------------------------------------------------------------------------
(* The same run where the process may end between the three flushes of main *)

\* main.rs:22, isocore.data_core.flush()
FlushData ==
    /\ isoAux.alive /\ isoAux.stage = 0
    /\ iso.path
    /\ LET r == CoreFlush(iso.data_core, fs.data)
       IN  /\ iso' = [iso EXCEPT !.data_core = r.core]
           /\ fs' = [fs EXCEPT !.data = r.dir]
    /\ isoAux' = [isoAux EXCEPT !.stage = 1]
    /\ UNCHANGED <<coreVars, diskVars, packVars>>

\* main.rs:23, isocore.verkle_core.flush()
FlushVerkle ==
    /\ isoAux.alive /\ isoAux.stage = 1
    /\ LET r == CoreFlush(iso.verkle_core, fs.verkle)
       IN  /\ iso' = [iso EXCEPT !.verkle_core = r.core]
           /\ fs' = [fs EXCEPT !.verkle = r.dir]
    /\ isoAux' = [isoAux EXCEPT !.stage = 2]
    /\ UNCHANGED <<coreVars, diskVars, packVars>>

\* main.rs:24, isocore.sig_core.flush()
FlushSig ==
    /\ isoAux.alive /\ isoAux.stage = 2
    /\ LET r == CoreFlush(iso.sig_core, fs.sig)
       IN  /\ iso' = [iso EXCEPT !.sig_core = r.core]
           /\ fs' = [fs EXCEPT !.sig = r.dir]
    /\ isoAux' = [isoAux EXCEPT !.stage = 0]
    /\ UNCHANGED <<coreVars, diskVars, packVars>>

NextCrash == AddMessage \/ FlushData \/ FlushVerkle \/ FlushSig \/ Load

SpecCrash == Init /\ [][NextCrash]_vars

-----------------------------------------------------------------------------
(* The run of a stand-alone Core: create, append, read, flush, restart *)

CoreMsgs == {<<1, 2>>, <<3>>, <<>>}

\* the ids the run reads: all of a short log and one past it; of a log close to
\* the end of the id range, the ids from the last one stored before the load
ReadIds ==
    IF CoreLen(core) <= MaxCoreLen THEN 0..CoreLen(core)
    ELSE (coreAux.base - 1)..FULL

CoreInit ==
    /\ \E path \in BOOLEAN : core = CoreCreate(path)
    /\ dir = NoFiles
    /\ coreAux = CoreAuxInit
    /\ IsoIdle
    /\ DiskIdle
    /\ PackIdle

\* add_message(contents)
CoreAdd ==
    \E contents \in CoreMsgs :
        /\ coreAux.alive
        /\ CoreLen(core) \notin MaxCoreLen..(FULL - MaxCoreLen - 1)
        /\ LET r == CoreAddMessage(core, contents)
           IN  /\ core' = r.core
               /\ coreAux' = [coreAux EXCEPT
                                !.hist = IF r.res.err = "Ok" THEN Append(@, contents) ELSE @,
                                !.ids = IF r.res.err = "Ok" THEN Append(@, r.res.val) ELSE @,
                                !.last = "add",
                                !.last_res = r.res.err]
        /\ UNCHANGED <<dir, isoVars, diskVars, packVars>>

\* load_message(id)
CoreLoadMessage ==
    \E id \in ReadIds :
        /\ coreAux.alive
        /\ core' = load_message(core, dir, id).core
        /\ coreAux' = [coreAux EXCEPT !.last = "load_message",
                                      !.last_res = load_message(core, dir, id).res.err]
        /\ UNCHANGED <<dir, isoVars, diskVars, packVars>>

\* get_contents(id); what it returns is read off get_contents in the state
CoreGetContents ==
    \E id \in ReadIds :
        /\ coreAux.alive
        /\ core' = get_contents(core, dir, id).core
        /\ coreAux' = [coreAux EXCEPT !.last = "get_contents",
                                      !.last_res = get_contents(core, dir, id).res.err]
        /\ UNCHANGED <<dir, isoVars, diskVars, packVars>>

\* flush()
CoreFlushCall ==
    /\ coreAux.alive
    /\ LET r == CoreFlush(core, dir)
       IN  core' = r.core /\ dir' = r.dir
    /\ coreAux' = [coreAux EXCEPT !.last = "flush", !.last_res = "Ok"]
    /\ UNCHANGED <<isoVars, diskVars, packVars>>

\* the process ends and the next one calls Core::load on the directory
CoreRestart ==
    /\ core.path
    /\ coreAux.loads < MaxLoads
    /\ LET r == CoreLoad(dir)
       IN  /\ core' = IF r.err = "Ok" THEN r.val ELSE CoreCreate(FALSE)
           /\ coreAux' = [coreAux EXCEPT
                            !.alive = (r.err = "Ok"),
                            !.hist = IF r.err = "Ok"
                                     THEN SubSeq(@, 1, Min(Len(@), CoreLen(r.val))) ELSE <<>>,
                            !.ids = <<>>,
                            !.base = IF r.err = "Ok" THEN CoreLen(r.val) ELSE 0,
                            !.last = "load",
                            !.last_res = r.err,
                            !.loads = @ + 1]
    /\ UNCHANGED <<dir, isoVars, diskVars, packVars>>

NextCore == CoreAdd \/ CoreLoadMessage \/ CoreGetContents \/ CoreFlushCall \/ CoreRestart

SpecCore == CoreInit /\ [][NextCore]_vars

-----------------------------------------------------------------------------
(* The properties of the IsoCore run *)

\* the bytes the store takes for data message k: its cached copy, else the stored file
held_bytes(k) ==
    IF k \in DOMAIN iso.data_core.messages
    THEN SubSeq(iso.data_core.cache, iso.data_core.messages[k][1] + 1,
                iso.data_core.messages[k][2])
    ELSE fs_read(fs.data, to_file_name(k)).val

\* the data messages whose stored file no longer holds the appended bytes
Tampered ==
    {k \in 0..(Len(isoAux.orig) - 1) :
        /\ to_file_name(k) \in DOMAIN fs.data
        /\ fs.data[to_file_name(k)] # isoAux.orig[k + 1]}

\* C1: in every state of a store whose L successful add_message calls carried
\* m_0..m_(L-1), get_message(ItemId(i)) returns exactly m_i for every i < L,
\* whatever reads, flushes and restarts came before.
C1_GetMessageReturnsAppended ==
    \A i \in 0..(Len(isoAux.orig) - 1) :
        IsoGetMessage(iso, fs, i).res = Ok(isoAux.orig[i + 1])

\* a loaded store past its first branch node, one record read back from storage
C1_Witness ==
    /\ Len(isoAux.orig) > WIDTH
    /\ isoAux.loads > 0
    /\ ReadBack # {}
    /\ \A i \in ReadBack : IsoGetMessage(iso, fs, i).res = Ok(isoAux.orig[i + 1])

\* C2 as stated: once the stored bytes of data message k are replaced,
\* get_message(k) returns IntegrityError and every other get_message(j)
\* returns the original message j.
C2_TamperedReadFails ==
    \A k \in Tampered :
        /\ IsoGetMessage(iso, fs, k).res = Err("IntegrityError")
        /\ \A j \in 0..(Len(isoAux.orig) - 1) :
              j # k => IsoGetMessage(iso, fs, j).res = Ok(isoAux.orig[j + 1])

\* C2 amended: get_message(k) never returns altered bytes.  It returns
\* IntegrityError when the bytes the store takes for k (its cached copy if it
\* holds one, else the stored file) differ from the appended message, and the
\* appended message otherwise; so a store that still caches k answers with
\* the original after the file was replaced.
C2_NeverAlteredBytes ==
    \A k \in 0..(Len(isoAux.orig) - 1) :
        IsoGetMessage(iso, fs, k).res =
            IF held_bytes(k) = isoAux.orig[k + 1]
            THEN Ok(isoAux.orig[k + 1]) ELSE Err("IntegrityError")

\* a replaced record was read from storage (and refused), next to an intact one
C2_Witness ==
    /\ Len(isoAux.orig) > 1
    /\ \E k \in Tampered :
          /\ k \in DOMAIN iso.data_core.messages
          /\ held_bytes(k) # isoAux.orig[k + 1]
          /\ IsoGetMessage(iso, fs, k).res = Err("IntegrityError")

RECURSIVE node_hash(_, _)
\* the hash of the node of covering y recomputed from the appended messages:
\* a leaf node has one child, the digest of its message; a branch has WIDTH
\* children, the hashes of its child nodes
node_hash(msgs, y) ==
    IF decode_covering(y, WIDTH)[2] = 0
    THEN hash(<<hash(msgs[decode_covering(y, WIDTH)[1] + 1])>>)
    ELSE hash([c \in 1..WIDTH |-> node_hash(msgs, children_for_covering(y, WIDTH)[c])])

\* the global root of the first k messages
global_root(msgs, k) ==
    hash([p \in 1..Len(get_peaks(k, WIDTH)) |-> node_hash(msgs, get_peaks(k, WIDTH)[p])])

\* the record k of the signature log, as get_contents returns it
sig_record(k) == get_contents(iso.sig_core, fs.sig, k - 1).res

\* C3: for every k in 1..len, record k of the signature log holds the global
\* root of the first k messages (the hash of the recomputed hashes of the
\* peaks get_peaks(k), in order) and a signature of that root that verifies
\* under the store's public key.
C3_SignedGlobalRoots ==
    \A k \in 1..Len(isoAux.orig) :
        /\ sig_record(k).err = "Ok"
        /\ Len(sig_record(k).val) = 3
        /\ sig_record(k).val[1] = to_hex(global_root(isoAux.orig, k))
        /\ sig_record(k).val[2] = NL
        /\ verify(iso.signer, global_root(isoAux.orig, k), sig_record(k).val[3][2])

\* the last append bagged two peaks, the first of them a branch node
C3_Witness ==
    /\ isoAux.add_err = "Ok"
    /\ Len(isoAux.orig) > WIDTH
    /\ Len(get_peaks(Len(isoAux.orig), WIDTH)) = 2
    /\ sig_record(Len(isoAux.orig)).val[1] = to_hex(global_root(isoAux.orig, Len(isoAux.orig)))

\* C4: after every successful add_message the inner log's length is
\* map_item_to_covering(data_core.len(), 8): the call added the nodes of
\* coverings_for_item(len - 1), as many as that range holds, after the
\* map_item_to_covering(len - 1) nodes of the items before.
C4_InnerLogLength ==
    isoAux.add_err = "Ok" =>
        /\ CoreLen(iso.verkle_core) = map_item_to_covering(CoreLen(iso.data_core), WIDTH)
        /\ coverings_for_item(IsoLen(iso) - 1, WIDTH)[1]
              = map_item_to_covering(IsoLen(iso) - 1, WIDTH)
        /\ coverings_for_item(IsoLen(iso) - 1, WIDTH)[2] = CoreLen(iso.verkle_core)

\* the append of the item that completes the first branch: two nodes at once
C4_Witness ==
    /\ isoAux.add_err = "Ok"
    /\ IsoLen(iso) = WIDTH
    /\ CoreLen(iso.verkle_core) = WIDTH + 1

\* C5: the signature log holds one record per appended message:
\* sig_core.len() = data_core.len() in every state.
C5_OneSignaturePerMessage ==
    CoreLen(iso.sig_core) = CoreLen(iso.data_core)

\* appends before and after a restart, one signature record each
C5_Witness ==
    /\ isoAux.add_err = "Ok"
    /\ isoAux.loaded[1] > 0
    /\ IsoLen(iso) > isoAux.loaded[1]
    /\ CoreLen(iso.sig_core) = IsoLen(iso)

\* C7: add_message with a signer whose public key is not the store's returns
\* SignerMismatch and leaves the store (the three logs, their lengths and
\* contents) as it was.
C7_SignerMismatch ==
    \A message \in Msgs, signer \in KeyPairs :
        (isoAux.alive /\ signer.key_pub # iso.signer) =>
            IsoAddMessage(iso, fs, message, signer)
                = [iso |-> iso, res |-> Err("SignerMismatch")]

\* a store that holds messages has just refused a foreign signer
C7_Witness ==
    /\ isoAux.add_err = "SignerMismatch"
    /\ IsoLen(iso) > 0
    /\ Len(isoAux.orig) = IsoLen(iso)

\* C10 as stated: a load that finds the three persisted logs mutually
\* inconsistent returns an error; so a load that succeeded read an inner log
\* of map_item_to_covering(data length) nodes and as many signature records
\* as data messages.
C10_LoadRejectsInconsistentLogs ==
    isoAux.load_err = "Ok" =>
        /\ isoAux.loaded[2] = map_item_to_covering(isoAux.loaded[1], WIDTH)
        /\ isoAux.loaded[3] = isoAux.loaded[1]

-----------------------------------------------------------------------------
(* The properties of the Core run *)

\* C6: on a core whose length was s when it was created or loaded, the k-th
\* successful add_message returns s + k - 1, and len() is s plus the number
\* of ids returned (the last returned id plus one).
C6_DenseIds ==
    coreAux.alive =>
        /\ \A k \in 1..Len(coreAux.ids) : coreAux.ids[k] = coreAux.base + k - 1
        /\ CoreLen(core) = coreAux.base + Len(coreAux.ids)
        /\ Len(coreAux.ids) > 0 => CoreLen(core) = coreAux.ids[Len(coreAux.ids)] + 1

\* two appends on a loaded core that already held a record
C6_Witness ==
    /\ coreAux.alive
    /\ coreAux.base > 0
    /\ Len(coreAux.ids) > 1
    /\ coreAux.last = "add"

\* C8: for every id below len(), a step by add_message, load_message,
\* get_contents or flush leaves the bytes get_contents(id) returns as they were.
C8_RecordsNeverChange ==
    [][ (coreAux.alive /\ coreAux'.last # "load") =>
            \A id \in 0..(CoreLen(core) - 1) :
                /\ get_contents(core, dir, id).res.err = "Ok"
                /\ get_contents(core', dir', id).res = get_contents(core, dir, id).res ]_vars

\* a loaded core read a stored record back after an append put other bytes
\* first in the cache, and has flushed since
C8_Witness ==
    /\ coreAux.last = "flush"
    /\ coreAux.base > 0
    /\ Len(coreAux.ids) > 0
    /\ 0 \in DOMAIN core.messages
    /\ core.messages[0][1] > 0

\* C9: after a flush of a path-backed core, Core::load on the directory gives
\* a core whose len() is the number of messages appended and whose
\* get_contents(i) is the i-th of them, also when the core itself was loaded.
C9_FlushThenLoad ==
    (coreAux.alive /\ core.path /\ coreAux.last = "flush") =>
        /\ CoreLoad(dir).err = "Ok"
        /\ CoreLen(CoreLoad(dir).val) = Len(coreAux.hist)
        /\ \A i \in 0..(Len(coreAux.hist) - 1) :
              get_contents(CoreLoad(dir).val, dir, i).res = Ok(coreAux.hist[i + 1])

\* the flush of a second cycle: a loaded core appended and flushed again
C9_Witness ==
    /\ coreAux.last = "flush"
    /\ coreAux.base > 0
    /\ Len(coreAux.ids) > 0
    /\ CoreLen(CoreLoad(dir).val) = coreAux.base + Len(coreAux.ids)

-----------------------------------------------------------------------------
(* neopack: the wire format                                                *)
(*                                                                         *)
(* An encoded value is a sequence of bytes (numbers 0..255).  A tag is one *)
(* byte; the tag's byte is its place in the list of tags.  A number read   *)
(* from little-endian bytes that does not fit 24 bits is read as 2^24: all *)
(* the program does with such a number is compare it with a buffer length. *)

TAGS ==
    <<"Bool", "U8", "S8", "U16", "S16", "U32", "S32", "U64", "S64", "F32", "F64",
      "String", "Bytes", "Struct", "List", "Map", "Array">>

\* `tag as u8`
tag_u8(t) == CHOOSE b \in 1..Len(TAGS) : TAGS[b] = t

\* Tag::from_u8
Tag_from_u8(byte) == IF byte \in 1..Len(TAGS) THEN TAGS[byte] ELSE "None"

\* the payload size of a scalar tag, 0 for the tags that carry a length
scalar_size(t) ==
    CASE t \in {"Bool", "U8", "S8"} -> 1
      [] t \in {"U16", "S16"} -> 2
      [] t \in {"U32", "S32", "F32"} -> 4
      [] t \in {"U64", "S64", "F64"} -> 8
      [] OTHER -> 0

\* v.to_le_bytes() for an n-byte integer type
to_le_bytes(v, n) == [i \in 1..n |-> IF i <= 3 THEN (v \div pow(256, i - 1)) % 256 ELSE 0]

\* uN::from_be_bytes(bytes): the bytes read in the opposite order
from_be_bytes(bytes) ==
    IF \E i \in 1..(Len(bytes) - 3) : bytes[i] # 0 THEN pow(2, 24)
    ELSE LET b(i) == IF i >= 1 THEN bytes[i] ELSE 0
         IN  b(Len(bytes)) + 256 * b(Len(bytes) - 1) + 65536 * b(Len(bytes) - 2)

\* uN::from_le_bytes(bytes)
from_le_bytes(bytes) ==
    IF \E i \in 4..Len(bytes) : bytes[i] # 0 THEN pow(2, 24)
    ELSE LET b(i) == IF i <= Len(bytes) THEN bytes[i] ELSE 0
         IN  b(1) + 256 * b(2) + 65536 * b(3)

\* Err(Error::Pending(n))
Pending(n) == [err |-> "Pending", val |-> n]

-----------------------------------------------------------------------------
(* neopack/decoder_old.rs: Decoder {buf, pos}; an operation returns the    *)
(* decoder after the call (d) and the call's result (res)                  *)

\* Decoder::need (remaining() is buf.len() - pos)
Decoder_need(d, n) ==
    IF Len(d.buf) - d.pos < n THEN Pending(n - (Len(d.buf) - d.pos)) ELSE Ok(<<>>)

\* Decoder::read_bytes, Decoder::skip
Decoder_read_bytes(d, len) ==
    IF Decoder_need(d, len).err # "Ok" THEN [d |-> d, res |-> Decoder_need(d, len)]
    ELSE [d |-> [d EXCEPT !.pos = @ + len],
          res |-> Ok(SubSeq(d.buf, d.pos + 1, d.pos + len))]

\* Decoder::read_primitive::<T> with T::SIZE = size
Decoder_read_primitive(d, size) ==
    IF Decoder_need(d, size).err # "Ok" THEN [d |-> d, res |-> Decoder_need(d, size)]
    ELSE [d |-> [d EXCEPT !.pos = @ + size],
          res |-> Ok(from_le_bytes(SubSeq(d.buf, d.pos + 1, d.pos + size)))]

\* Decoder::read_tag
Decoder_read_tag(d) ==
    IF Decoder_need(d, 1).err # "Ok" THEN [d |-> d, res |-> Decoder_need(d, 1)]
    ELSE [d |-> [d EXCEPT !.pos = @ + 1],
          res |-> IF Tag_from_u8(d.buf[d.pos + 1]) = "None" THEN Err("InvalidTag")
                  ELSE Ok(Tag_from_u8(d.buf[d.pos + 1]))]

\* the rest of expect_blob, list and map once the tag matched: the u32 length, then the bytes
Decoder_blob_body(d) ==
    IF Decoder_read_primitive(d, 4).res.err # "Ok" THEN Decoder_read_primitive(d, 4)
    ELSE Decoder_read_bytes(Decoder_read_primitive(d, 4).d, Decoder_read_primitive(d, 4).res.val)

\* Decoder::expect_blob(expected, |b| Ok(b)); Decoder::list and Decoder::map up to the
\* bytes of the body (expected = "List", "Map")
expect_blob(d, expected) ==
    IF Decoder_read_tag(d).res.err # "Ok" THEN Decoder_read_tag(d)
    ELSE IF Decoder_read_tag(d).res.val # expected
         THEN [d |-> Decoder_read_tag(d).d, res |-> Err("TypeMismatch")]
         ELSE Decoder_blob_body(Decoder_read_tag(d).d)

\* Decoder::skip_value
skip_value(d) ==
    IF Decoder_read_tag(d).res.err # "Ok" THEN Decoder_read_tag(d)
    ELSE IF scalar_size(Decoder_read_tag(d).res.val) > 0
         THEN Decoder_read_bytes(Decoder_read_tag(d).d, scalar_size(Decoder_read_tag(d).res.val))
         ELSE Decoder_blob_body(Decoder_read_tag(d).d)

\* Decoder::raw_value: the bytes of the next value, tag and length included
raw_value(d) ==
    IF skip_value(d).res.err # "Ok" THEN skip_value(d)
    ELSE [d |-> skip_value(d).d, res |-> Ok(SubSeq(d.buf, d.pos + 1, skip_value(d).d.pos))]

-----------------------------------------------------------------------------
(* neodisk.rs: the file is a sequence of bytes, the writer's file handle   *)
(* is its position `pos` in the file.  zstd is a framing that stores the   *)
(* payload behind a magic number and the payload's length, and that        *)
(* refuses to decode anything else.  Reads and writes of the file succeed. *)

MAGIC == <<78, 69, 79, 68, 73, 83, 75, 0>>
VERSION == 1
HEADER_SIZE == 32
FOOTER_SIZE == 16
ENTRY_SIZE == 40

\* Header::to_bytes
Header_to_bytes(h) ==
    MAGIC \o <<h.version, 0>> \o [i \in 1..6 |-> 0]
          \o to_le_bytes(h.frame_size, 8) \o to_le_bytes(h.message_count, 8)

\* Header::from_bytes
Header_from_bytes(bytes) ==
    IF Len(bytes) < HEADER_SIZE THEN Err("InvalidMagic")
    ELSE IF SubSeq(bytes, 1, 8) # MAGIC THEN Err("InvalidMagic")
    ELSE IF bytes[9] # VERSION THEN Err("InvalidVersion")
    ELSE Ok([version |-> bytes[9],
             frame_size |-> from_le_bytes(SubSeq(bytes, 17, 24)),
             message_count |-> from_le_bytes(SubSeq(bytes, 25, 32))])

\* file.write_all(bytes) with the file position at pos (pos <= Len(file))
write_all(file, pos, bytes) ==
    [i \in 1..(IF pos + Len(bytes) > Len(file) THEN pos + Len(bytes) ELSE Len(file)) |->
        IF i > pos /\ i <= pos + Len(bytes) THEN bytes[i - pos] ELSE file[i]]

\* zstd::encode_all(buffer, 3)
zstd_encode_all(buffer) == <<40, 181, 47, 253, Len(buffer)>> \o buffer

\* zstd::decode_all(compressed)
zstd_decode_all(compressed) ==
    IF /\ Len(compressed) >= 5
       /\ SubSeq(compressed, 1, 4) = <<40, 181, 47, 253>>
       /\ compressed[5] = Len(compressed) - 5
    THEN Ok(SubSeq(compressed, 6, Len(compressed)))
    ELSE Err("Compression")

\* NeoDiskWriter::create_with_frame_size: the writer and the file it leaves
Writer_create(frame_size) ==
    [w |-> [frame_size |-> frame_size, buffer |-> <<>>, message_count |-> 0,
            frames |-> <<>>, current_frame_messages |-> 0, pos |-> HEADER_SIZE],
     file |-> Header_to_bytes([version |-> VERSION, frame_size |-> frame_size,
                               message_count |-> 0])]

\* the index at `offset` as NeoDiskWriter::open and NeoDiskReader::read_index parse it;
\* a slice that leaves the file panics
read_index(data, offset) ==
    IF offset + 8 > Len(data) THEN Err("Panic")
    ELSE IF offset + 8 + ENTRY_SIZE * from_le_bytes(SubSeq(data, offset + 1, offset + 8)) > Len(data)
    THEN Err("Panic")
    ELSE Ok([k \in 1..from_le_bytes(SubSeq(data, offset + 1, offset + 8)) |->
               LET pos == offset + 8 + ENTRY_SIZE * (k - 1)
                   field(j) == from_le_bytes(SubSeq(data, pos + 8 * j + 1, pos + 8 * j + 8))
               IN  [offset |-> field(0), compressed_size |-> field(1),
                    decompressed_size |-> field(2), message_count |-> field(3),
                    first_message_id |-> field(4)]])

\* NeoDiskWriter::open without the seek to the index: the file position stays at the
\* end of the header
Writer_open_no_seek(data) ==
    IF Len(data) < HEADER_SIZE THEN Err("InvalidMagic")
    ELSE IF Header_from_bytes(SubSeq(data, 1, 32)).err # "Ok"
    THEN Header_from_bytes(SubSeq(data, 1, 32))
    ELSE IF Len(data) < HEADER_SIZE + FOOTER_SIZE THEN Err("InvalidMagic")
    ELSE IF SubSeq(data, Len(data) - 7, Len(data)) # MAGIC THEN Err("InvalidMagic")
    ELSE LET index_offset == from_le_bytes(SubSeq(data, Len(data) - 15, Len(data) - 8))
         IN  IF read_index(data, index_offset).err # "Ok" THEN read_index(data, index_offset)
             ELSE LET frames == read_index(data, index_offset).val
                  IN  Ok([frame_size |-> Header_from_bytes(SubSeq(data, 1, 32)).val.frame_size,
                          buffer |-> <<>>,
                          message_count |-> IF frames = <<>> THEN 0
                                            ELSE frames[Len(frames)].first_message_id
                                                 + frames[Len(frames)].message_count,
                          frames |-> frames,
                          current_frame_messages |-> 0,
                          pos |-> HEADER_SIZE])

\* NeoDiskWriter::open
Writer_open(data) ==
    IF Len(data) < HEADER_SIZE THEN Err("InvalidMagic")
    ELSE IF Header_from_bytes(SubSeq(data, 1, 32)).err # "Ok"
    THEN Header_from_bytes(SubSeq(data, 1, 32))
    ELSE IF Len(data) < HEADER_SIZE + FOOTER_SIZE THEN Err("InvalidMagic")
    ELSE IF SubSeq(data, Len(data) - 7, Len(data)) # MAGIC THEN Err("InvalidMagic")
    ELSE LET index_offset == from_le_bytes(SubSeq(data, Len(data) - 15, Len(data) - 8))
         IN  IF read_index(data, index_offset).err # "Ok" THEN read_index(data, index_offset)
             ELSE LET frames == read_index(data, index_offset).val
                  IN  Ok([frame_size |-> Header_from_bytes(SubSeq(data, 1, 32)).val.frame_size,
                          buffer |-> <<>>,
                          message_count |-> IF frames = <<>> THEN 0
                                            ELSE frames[Len(frames)].first_message_id
                                                 + frames[Len(frames)].message_count,
                          frames |-> frames,
                          current_frame_messages |-> 0,
                          pos |-> index_offset])

\* NeoDiskWriter::flush_frame without the test for an empty buffer
flush_frame_always(w, file) ==
    [w |-> [w EXCEPT !.frames = Append(@,
                          [offset |-> w.pos,
                           compressed_size |-> Len(zstd_encode_all(w.buffer)),
                           decompressed_size |-> Len(w.buffer),
                           message_count |-> w.current_frame_messages,
                           first_message_id |-> w.message_count - w.current_frame_messages]),
                       !.buffer = <<>>,
                       !.current_frame_messages = 0,
                       !.pos = @ + Len(zstd_encode_all(w.buffer))],
     file |-> write_all(file, w.pos, zstd_encode_all(w.buffer))]

\* NeoDiskWriter::flush_frame: the writer and the file after the call
flush_frame(w, file) ==
    IF w.buffer = <<>> THEN [w |-> w, file |-> file]
    ELSE [w |-> [w EXCEPT !.frames = Append(@,
                              [offset |-> w.pos,
                               compressed_size |-> Len(zstd_encode_all(w.buffer)),
                               decompressed_size |-> Len(w.buffer),
                               message_count |-> w.current_frame_messages,
                               first_message_id |-> w.message_count - w.current_frame_messages]),
                           !.buffer = <<>>,
                           !.current_frame_messages = 0,
                           !.pos = @ + Len(zstd_encode_all(w.buffer))],
          file |-> write_all(file, w.pos, zstd_encode_all(w.buffer))]

\* NeoDiskWriter::append(message): the writer and the file after the call; the id
\* returned is the message_count before it
Writer_append(w, file, message) ==
    LET w1 == [w EXCEPT !.buffer = @ \o message,
                        !.message_count = @ + 1,
                        !.current_frame_messages = @ + 1]
    IN  IF Len(w1.buffer) >= w1.frame_size THEN flush_frame(w1, file)
        ELSE [w |-> w1, file |-> file]

\* NeoDiskWriter::flush: after flush_frame (r) the index and the footer go to the file
\* position, the message count goes to offset 24 of the header, and the file position
\* stays behind it
Writer_flush(w, file) ==
    LET r == flush_frame(w, file)
        entry(f) == to_le_bytes(f.offset, 8) \o to_le_bytes(f.compressed_size, 8)
                      \o to_le_bytes(f.decompressed_size, 8) \o to_le_bytes(f.message_count, 8)
                      \o to_le_bytes(f.first_message_id, 8)
    IN  [w |-> [r.w EXCEPT !.pos = 24 + 8],
         file |-> write_all(
                     write_all(r.file, r.w.pos,
                         to_le_bytes(Len(r.w.frames), 8)
                           \o Concat([k \in 1..Len(r.w.frames) |-> entry(r.w.frames[k])])
                           \o to_le_bytes(r.w.pos, 8) \o MAGIC),
                     24, to_le_bytes(r.w.message_count, 8))]

\* NeoDiskReader::open: the header and the frames of the mapped file
Reader_open(mmap) ==
    IF Len(mmap) < HEADER_SIZE THEN Err("Panic")
    ELSE IF Header_from_bytes(SubSeq(mmap, 1, 32)).err # "Ok"
    THEN Header_from_bytes(SubSeq(mmap, 1, 32))
    ELSE IF Len(mmap) < HEADER_SIZE + FOOTER_SIZE THEN Err("InvalidMagic")
    ELSE IF SubSeq(mmap, Len(mmap) - 7, Len(mmap)) # MAGIC THEN Err("InvalidMagic")
    ELSE LET index_offset == from_le_bytes(SubSeq(mmap, Len(mmap) - 15, Len(mmap) - 8))
         IN  IF read_index(mmap, index_offset).err # "Ok" THEN read_index(mmap, index_offset)
             ELSE Ok([header |-> Header_from_bytes(SubSeq(mmap, 1, 32)).val,
                      frames |-> read_index(mmap, index_offset).val])

\* NeoDiskReader::len
Reader_len(reader) == reader.header.message_count

\* NeoDiskReader::find_frame: the index of the first frame holding the id, 0 for none
find_frame(reader, id) ==
    LET hits == {k \in 1..Len(reader.frames) :
                    /\ id >= reader.frames[k].first_message_id
                    /\ id < reader.frames[k].first_message_id + reader.frames[k].message_count}
    IN  IF hits = {} THEN 0 ELSE CHOOSE k \in hits : \A j \in hits : k <= j

\* NeoDiskReader::decompress_frame
decompress_frame(mmap, frame) ==
    IF frame.offset + frame.compressed_size > Len(mmap) THEN Err("Panic")
    ELSE zstd_decode_all(SubSeq(mmap, frame.offset + 1, frame.offset + frame.compressed_size))

RECURSIVE skip_values(_, _)
\* the loop of NeoDiskReader::read: n calls of skip_value, stopped by the first error
skip_values(d, n) ==
    IF n = 0 THEN [d |-> d, res |-> Ok(<<>>)]
    ELSE IF skip_value(d).res.err # "Ok" THEN skip_value(d)
    ELSE skip_values(skip_value(d).d, n - 1)

\* NeoDiskReader::read(id)
Reader_read(reader, mmap, id) ==
    IF find_frame(reader, id) = 0 THEN Err("MessageNotFound")
    ELSE IF decompress_frame(mmap, reader.frames[find_frame(reader, id)]).err # "Ok"
    THEN decompress_frame(mmap, reader.frames[find_frame(reader, id)])
    ELSE LET skipped == skip_values(
                 [buf |-> decompress_frame(mmap, reader.frames[find_frame(reader, id)]).val,
                  pos |-> 0],
                 id - reader.frames[find_frame(reader, id)].first_message_id)
         IN  IF skipped.res.err # "Ok" THEN skipped.res ELSE raw_value(skipped.d).res

-----------------------------------------------------------------------------
(* The run of a NeoDisk file: one writer at a time appends and flushes;    *)
(* the process may drop a flushed writer and open the file for append.     *)
(* Records are encoded NeoPack scalars, as in the tests of neodisk.rs.     *)

\* the frame size the file is created with: two records fill a frame
FrameSize == 4
\* appends per file
MaxAppends == 4
\* flushes per file
MaxFlushes == 3
\* NeoDiskWriter::open calls per file
MaxOpens == 1

DiskMsgs == {<<tag_u8("U8"), 7>>, <<tag_u8("U16"), 1, 2>>}

\* a NeoDiskReader opened on the file reports exactly the records recs
ReadsBack(file, recs) ==
    /\ Reader_open(file).err = "Ok"
    /\ Reader_len(Reader_open(file).val) = Len(recs)
    /\ \A i \in 1..Len(recs) :
         /\ Reader_read(Reader_open(file).val, file, i - 1).err = "Ok"
         /\ Reader_read(Reader_open(file).val, file, i - 1).val = recs[i]

NdAuxInit ==
    [alive |-> TRUE,        \* the process holds a writer
     recs |-> <<>>,         \* the records appended to the file, in order
     ids |-> <<>>,          \* the ids append returned, in call order
     flushes |-> 0,         \* flush calls on the writer the process holds
     all_flushes |-> 0,     \* flush calls on the file
     opens |-> 0,           \* NeoDiskWriter::open calls on the file
     base |-> 0,            \* records in the file when the writer was opened on it
     base_ok |-> FALSE,     \* a reader read exactly those records when the writer was opened
     base_frames |-> 0,     \* frames the writer found in the index when it was opened
     pending |-> <<>>,      \* records appended since the writer last recorded a frame
     frame_recs |-> <<>>,   \* per frame this writer recorded: the records appended for it
     frame_data |-> <<>>,   \* per frame this writer recorded: what the bytes it wrote decode to
     last |-> "create"]     \* the last call

DiskInit ==
    /\ nd = Writer_create(FrameSize).w
    /\ ndFile = Writer_create(FrameSize).file
    /\ ndAux = NdAuxInit
    /\ IsoIdle
    /\ CoreIdle
    /\ PackIdle

\* the history after a call left writer w and file f, with records p waiting for a frame
DiskAuxFrames(aux, w, f, p) ==
    IF Len(w.frames) > Len(nd.frames)
    THEN [aux EXCEPT !.pending = <<>>,
                     !.frame_recs = Append(@, p),
                     !.frame_data = Append(@,
                         zstd_decode_all(SubSeq(f, w.frames[Len(w.frames)].offset + 1,
                             w.frames[Len(w.frames)].offset
                               + w.frames[Len(w.frames)].compressed_size)).val)]
    ELSE [aux EXCEPT !.pending = p]

\* writer.append(message)
DiskAppend ==
    \E message \in DiskMsgs :
        /\ ndAux.alive
        /\ Len(ndAux.recs) < MaxAppends
        /\ nd' = Writer_append(nd, ndFile, message).w
        /\ ndFile' = Writer_append(nd, ndFile, message).file
        /\ ndAux' = DiskAuxFrames([ndAux EXCEPT !.recs = Append(@, message),
                                                !.ids = Append(@, nd.message_count),
                                                !.last = "append"],
                                  nd', ndFile', Append(ndAux.pending, message))
        /\ UNCHANGED <<isoVars, coreVars, packVars>>

\* writer.flush()
DiskFlush ==
    /\ ndAux.alive
    /\ ndAux.all_flushes < MaxFlushes
    /\ nd' = Writer_flush(nd, ndFile).w
    /\ ndFile' = Writer_flush(nd, ndFile).file
    /\ ndAux' = DiskAuxFrames([ndAux EXCEPT !.flushes = @ + 1,
                                            !.all_flushes = @ + 1,
                                            !.last = "flush"],
                              nd', ndFile', ndAux.pending)
    /\ UNCHANGED <<isoVars, coreVars, packVars>>

\* the flushed writer is dropped and NeoDiskWriter::open(path) is called
DiskReopen ==
    /\ ndAux.alive
    /\ ndAux.last = "flush"
    /\ ndAux.opens < MaxOpens
    /\ IF Writer_open(ndFile).err = "Ok"
       THEN /\ nd' = Writer_open(ndFile).val
            /\ ndAux' = [ndAux EXCEPT !.opens = @ + 1,
                                      !.flushes = 0,
                                      !.base = Len(ndAux.recs),
                                      !.base_ok = ReadsBack(ndFile, ndAux.recs),
                                      !.base_frames = Len(Writer_open(ndFile).val.frames),
                                      !.pending = <<>>,
                                      !.frame_recs = <<>>,
                                      !.frame_data = <<>>,
                                      !.last = "open"]
       ELSE /\ nd' = nd
            /\ ndAux' = [ndAux EXCEPT !.opens = @ + 1, !.alive = FALSE, !.last = "open failed"]
    /\ UNCHANGED <<ndFile, isoVars, coreVars, packVars>>

NextDisk == DiskAppend \/ DiskFlush \/ DiskReopen

SpecDisk == DiskInit /\ [][NextDisk]_vars

\* the process ends and the file is left shorter than it was written
DiskCut ==
    \E n \in {8, 31, 32, 40, 47} :
        /\ ndAux.alive
        /\ n < Len(ndFile)
        /\ ndFile' = SubSeq(ndFile, 1, n)
        /\ ndAux' = [ndAux EXCEPT !.alive = FALSE, !.last = "cut"]
        /\ UNCHANGED <<nd, isoVars, coreVars, packVars>>

SpecDiskCut == DiskInit /\ [][NextDisk \/ DiskCut]_vars

-----------------------------------------------------------------------------
(* Claims about NeoDisk *)

\* C11: after any sequence of append and flush calls on one NeoDiskWriter that ends
\* with a flush (flush may have been called several times), a NeoDiskReader opened
\* on the file reports len() = the number of appends and read(i) = the i-th record.
C11_FlushedLogReadsBack ==
    (ndAux.last = "flush" /\ ndAux.opens = 0) => ReadsBack(ndFile, ndAux.recs)

\* a record was appended and flushed by the one flush the writer made
C11_Witness ==
    /\ ndAux.last = "flush"
    /\ ndAux.opens = 0
    /\ ndAux.all_flushes = 1
    /\ Len(ndAux.recs) = MaxAppends
    /\ ReadsBack(ndFile, ndAux.recs)

\* C11 holds of the runs whose writer flushes once
C11_SingleFlushReadsBack ==
    (ndAux.last = "flush" /\ ndAux.opens = 0 /\ ndAux.all_flushes = 1)
        => ReadsBack(ndFile, ndAux.recs)

\* C12: when a flushed file that a reader reads as r_0..r_(k-1) is opened with
\* NeoDiskWriter::open, further records are appended and the writer is flushed, a
\* reader opened afterwards reports len() = L and read(i) = r_i for every i < L, the
\* old records included.
C12_ReopenPreservesLog ==
    (ndAux.last = "flush" /\ ndAux.opens >= 1 /\ ndAux.base_ok /\ ndAux.flushes = 1)
        => ReadsBack(ndFile, ndAux.recs)

\* a file holding records was reopened, more records were appended and flushed
C12_Witness ==
    /\ ndAux.last = "flush"
    /\ ndAux.opens >= 1
    /\ ndAux.base_ok
    /\ ndAux.flushes = 1
    /\ ndAux.base > 0
    /\ Len(ndAux.recs) > ndAux.base
    /\ Len(nd.frames) > ndAux.base_frames

\* C13: NeoDiskReader::open and NeoDiskWriter::open return a format error, and no
\* reader or writer, for every file that is too short to hold a footer or whose last
\* 8 bytes are not the magic string.
C13_OpenRejectsUnfinishedFiles ==
    (Len(ndFile) < HEADER_SIZE + FOOTER_SIZE \/ SubSeq(ndFile, Len(ndFile) - 7, Len(ndFile)) # MAGIC)
        => /\ Reader_open(ndFile).err \in {"InvalidMagic", "InvalidVersion"}
           /\ Writer_open(ndFile).err \in {"InvalidMagic", "InvalidVersion"}

\* C13, the case it names: a file with appended records and frames whose flush never
\* ran is rejected by both opens with a format error
C13_NeverFlushedRejected ==
    ndAux.all_flushes = 0
        => /\ Reader_open(ndFile).err = "InvalidMagic"
           /\ Writer_open(ndFile).err = "InvalidMagic"

\* frames were written to a file whose flush never ran
C13_Witness ==
    /\ ndAux.all_flushes = 0
    /\ Len(nd.frames) > 0
    /\ Len(ndFile) > HEADER_SIZE
    /\ Reader_open(ndFile).err = "InvalidMagic"

\* C14: every frame the writer records holds a whole number, at least one, of the
\* records passed to append: its message_count is the number of records appended
\* for it, its bytes are those records one after the other, unsplit, and no frame
\* has message_count 0.
C14_FramesHoldWholeRecords ==
    /\ Len(nd.frames) = ndAux.base_frames + Len(ndAux.frame_recs)
    /\ \A k \in 1..Len(ndAux.frame_recs) :
         /\ nd.frames[ndAux.base_frames + k].message_count = Len(ndAux.frame_recs[k])
         /\ nd.frames[ndAux.base_frames + k].message_count >= 1
         /\ nd.frames[ndAux.base_frames + k].decompressed_size
              = Len(Concat(ndAux.frame_recs[k]))
         /\ ndAux.frame_data[k] = Concat(ndAux.frame_recs[k])

\* the writer recorded a frame of two records (completed by append) and a frame of
\* one record (completed by flush)
C14_Witness ==
    /\ Len(ndAux.frame_recs) = 2
    /\ Len(ndAux.frame_recs[1]) = 2
    /\ Len(ndAux.frame_recs[2]) = 1
    /\ nd.frames[ndAux.base_frames + 2].message_count = 1

-----------------------------------------------------------------------------
(* neopack/encoder.rs: the Encoder is its buffer                           *)

U16_MAX == 65535

\* Encoder::bool .. Encoder::f64: the tag, then the value's little-endian bytes
write_scalar(buf, tag, v) == buf \o <<tag_u8(tag)>> \o to_le_bytes(v, scalar_size(tag))

\* Encoder::write_blob (Encoder::str, bytes, struct_blob): the buffer after the call
\* and the call's result
write_blob(buf, tag, data) ==
    IF Len(data) > U16_MAX THEN [buf |-> buf, res |-> Err("BlobTooLarge")]
    ELSE [buf |-> buf \o <<tag_u8(tag)>> \o to_le_bytes(Len(data), 2) \o data,
          res |-> Ok(<<>>)]

\* a blob in the layout decoder_old.rs reads: the tag, the length as u32, the bytes
old_blob(tag, data) == <<tag_u8(tag)>> \o to_le_bytes(Len(data), 4) \o data

-----------------------------------------------------------------------------
(* neopack/decoder.rs: Reader {buf, pos}.  Reader::need, read_u8 .. read_f64,        *)
(* read_bytes and read_tag (decoder.rs:23-117) are the code of Decoder::need,        *)
(* read_primitive, read_bytes and read_tag of decoder_old.rs, and share their        *)
(* definitions; an operation returns the reader after the call (d) and its result.   *)

\* Reader::bool .. Reader::f64: the accessor of a scalar tag
Reader_scalar(r, tag) ==
    IF Decoder_read_tag(r).res.err # "Ok" THEN Decoder_read_tag(r)
    ELSE IF Decoder_read_tag(r).res.val # tag
         THEN [d |-> Decoder_read_tag(r).d, res |-> Err("TypeMismatch")]
         ELSE Decoder_read_primitive(Decoder_read_tag(r).d, scalar_size(tag))

\* the u16 length and the bytes of a blob, read after its tag
Reader_blob_body(r) ==
    IF Decoder_read_primitive(r, 2).res.err # "Ok" THEN Decoder_read_primitive(r, 2)
    ELSE Decoder_read_bytes(Decoder_read_primitive(r, 2).d, Decoder_read_primitive(r, 2).res.val)

\* Reader::str, Reader::bytes, Reader::struct_blob
Reader_blob(r, tag) ==
    IF Decoder_read_tag(r).res.err # "Ok" THEN Decoder_read_tag(r)
    ELSE IF Decoder_read_tag(r).res.val # tag
         THEN [d |-> Decoder_read_tag(r).d, res |-> Err("TypeMismatch")]
         ELSE Reader_blob_body(Decoder_read_tag(r).d)

-----------------------------------------------------------------------------
(* Decoding one value from a part of its encoding: an encoded value is cut *)
(* to a prefix and the accessor of its tag is called on a fresh reader     *)

\* payload bytes per blob in the runs of single values
MaxBlob == 2

ScalarTags == {t \in {TAGS[i] : i \in 1..Len(TAGS)} : scalar_size(t) > 0}
BlobTags == {"String", "Bytes", "Struct"}
BlobData == {<<>>, <<104>>, <<104, 105>>}

\* the values encoded: each scalar tag with two values (1234 is D2 04 in little-endian
\* bytes), each blob tag with each payload
\* of at most MaxBlob bytes; api names the decoder that will read it
EncodedValues ==
    UNION {{[api |-> "Reader", tag |-> t, val |-> <<v>>, full |-> write_scalar(<<>>, t, v)] :
               v \in IF t = "Bool" THEN {0, 1}
                     ELSE IF scalar_size(t) = 1 THEN {1, 210} ELSE {1, 1234}} :
           t \in ScalarTags}
    \cup {[api |-> "Reader", tag |-> t, val |-> b, full |-> write_blob(<<>>, t, b).buf] :
        t \in BlobTags, b \in {x \in BlobData : Len(x) <= MaxBlob}}
    \cup {[api |-> "Decoder", tag |-> t, val |-> b, full |-> old_blob(t, b)] :
        t \in BlobTags, b \in {x \in BlobData : Len(x) <= MaxBlob}}

ValueInit ==
    /\ \E e \in EncodedValues : \E n \in 0..Len(e.full) :
         pk = [api |-> e.api, tag |-> e.tag, val |-> e.val, full |-> e.full,
               buf |-> SubSeq(e.full, 1, n), op |-> "init",
               pos |-> 0, err |-> "Ok", pending |-> 0, out |-> <<>>]
    /\ IsoIdle
    /\ CoreIdle
    /\ DiskIdle

\* Reader::new(buf) and the accessor of the value's tag (decoder.rs)
ReaderAccess ==
    /\ pk.op = "init"
    /\ pk.api = "Reader"
    /\ LET r == IF pk.tag \in ScalarTags
                THEN Reader_scalar([buf |-> pk.buf, pos |-> 0], pk.tag)
                ELSE Reader_blob([buf |-> pk.buf, pos |-> 0], pk.tag)
       IN  pk' = [pk EXCEPT !.op = "read", !.pos = r.d.pos, !.err = r.res.err,
                            !.pending = IF r.res.err = "Pending" THEN r.res.val ELSE 0,
                            !.out = IF r.res.err # "Ok" THEN <<>>
                                    ELSE IF pk.tag \in ScalarTags THEN <<r.res.val>>
                                    ELSE r.res.val]
    /\ UNCHANGED <<isoVars, coreVars, diskVars>>

\* Decoder::new(buf) and str, bytes or record_raw (decoder_old.rs)
DecoderAccess ==
    /\ pk.op = "init"
    /\ pk.api = "Decoder"
    /\ LET r == expect_blob([buf |-> pk.buf, pos |-> 0], pk.tag)
       IN  pk' = [pk EXCEPT !.op = "read", !.pos = r.d.pos, !.err = r.res.err,
                            !.pending = IF r.res.err = "Pending" THEN r.res.val ELSE 0,
                            !.out = IF r.res.err = "Ok" THEN r.res.val ELSE <<>>]
    /\ UNCHANGED <<isoVars, coreVars, diskVars>>

NextValue == ReaderAccess \/ DecoderAccess

SpecValue == ValueInit /\ [][NextValue]_vars

-----------------------------------------------------------------------------
(* Claims about NeoPack *)

\* C15: for every valid encoded value and every proper prefix of its bytes, the empty
\* prefix included, the accessor of the value returns Pending(k) with k > 0 and
\* leaves the cursor where it was before the call.
C15_PendingKeepsCursor ==
    (pk.op = "read" /\ Len(pk.buf) < Len(pk.full))
        => /\ pk.err = "Pending"
           /\ pk.pending > 0
           /\ pk.pos = 0

\* C15 without the cursor: on a proper prefix the accessor returns Pending(k) with
\* k > 0 no larger than the number of bytes missing, and the cursor stays only where
\* not even the tag could be read
C15_PendingOnPrefix ==
    (pk.op = "read" /\ Len(pk.buf) < Len(pk.full))
        => /\ pk.err = "Pending"
           /\ pk.pending > 0
           /\ pk.pending <= Len(pk.full) - Len(pk.buf)
           /\ (pk.pos = 0 <=> pk.buf = <<>>)

\* a u32 was cut after its tag and one byte of its value, and u32() returned Pending
C15_Witness ==
    /\ pk.op = "read"
    /\ pk.api = "Reader"
    /\ pk.tag = "U32"
    /\ Len(pk.buf) = 2
    /\ pk.err = "Pending"
    /\ pk.pending = 3

\* C19: round trip: decoding the encoding of bytes(b) returns b and leaves the cursor
\* at the end of the encoding, for every b within the blob size limit; likewise for
\* every value of every scalar tag and for String and Struct blobs.
C19_RoundTrip ==
    (pk.op = "read" /\ pk.api = "Reader" /\ pk.buf = pk.full)
        => /\ pk.err = "Ok"
           /\ pk.out = pk.val
           /\ pk.pos = Len(pk.full)

\* a two-byte Bytes blob was encoded whole and read back
C19_Witness ==
    /\ pk.op = "read"
    /\ pk.api = "Reader"
    /\ pk.buf = pk.full
    /\ pk.tag = "Bytes"
    /\ pk.val = <<104, 105>>
    /\ pk.out = <<104, 105>>
    /\ pk.pos = 5

-----------------------------------------------------------------------------
(* neopack/encoder.rs: the scoped containers.  The encoder e is its buffer *)
(* and the stack of the open scopes {kind, start, count}; a scope's parent *)
(* is the encoder's buffer.  A value v to write is its tag and its value   *)
(* (val: <<n>> for a scalar, the bytes for a blob).                        *)

\* the stride and the item tag of the arrays written
Stride == 2

\* Encoder::u8(v), Encoder::str(v), ...: the public write of one value
write_value(buf, v) ==
    IF scalar_size(v.tag) > 0
    THEN [buf |-> write_scalar(buf, v.tag, v.val[1]), res |-> Ok(<<>>)]
    ELSE write_blob(buf, v.tag, v.val)

\* Encoder::list, Encoder::map, Encoder::array(Tag::U16, Stride): the header with the
\* placeholder count is written and the scope is opened at the header's offset
Encoder_begin(e, kind) ==
    [buf |-> e.buf \o (IF kind = "Array"
                       THEN <<tag_u8("Array"), tag_u8("U16")>> \o to_le_bytes(Stride, 2)
                              \o to_le_bytes(0, 2)
                       ELSE <<tag_u8(kind)>> \o to_le_bytes(0, 2)),
     stack |-> Append(e.stack, [kind |-> kind, start |-> Len(e.buf), count |-> 0])]

\* inc_count that leaves the count as it is
inc_count_off(e) == e

\* the innermost open scope with its count incremented
inc_count(e) == [e EXCEPT !.stack[Len(e.stack)].count = @ + 1]

\* ListEncoder::list, map, array: inc_count, then the parent's container starter
List_begin(e, kind) ==
    IF e.stack[Len(e.stack)].count = U16_MAX THEN [e |-> e, res |-> Err("ContainerFull")]
    ELSE [e |-> Encoder_begin(inc_count(e), kind), res |-> Ok(<<>>)]

\* Encoder::array(item_tag, stride): a stride of 0 or beyond u16 is refused before
\* anything is written
Encoder_array(e, stride) ==
    IF stride = 0 \/ stride > U16_MAX THEN [e |-> e, res |-> Err("InvalidStride")]
    ELSE [e |-> Encoder_begin(e, "Array"), res |-> Ok(<<>>)]

\* ListEncoder::array(item_tag, stride): inc_count, then the parent's array
List_array(e, stride) ==
    IF e.stack[Len(e.stack)].count = U16_MAX THEN [e |-> e, res |-> Err("ContainerFull")]
    ELSE Encoder_array(inc_count(e), stride)

\* ListEncoder::bool .. ListEncoder::struct_blob: inc_count, then the parent's write
List_write(e, v) ==
    IF e.stack[Len(e.stack)].count = U16_MAX THEN [e |-> e, res |-> Err("ContainerFull")]
    ELSE [e |-> [inc_count(e) EXCEPT !.buf = write_value(e.buf, v).buf],
          res |-> write_value(e.buf, v).res]

\* ArrayEncoder::push(data)
Array_push(e, data) ==
    IF Len(data) # Stride THEN [e |-> e, res |-> Err("Malformed")]
    ELSE IF e.stack[Len(e.stack)].count = U16_MAX THEN [e |-> e, res |-> Err("ContainerFull")]
    ELSE [e |-> [inc_count(e) EXCEPT !.buf = @ \o data], res |-> Ok(<<>>)]

\* MapEncoder::entry(key, f): the key is written, then the closure runs on the parent
\* (it returns an error before it writes, or writes f.v), then the count is raised
Map_entry(e, key, f) ==
    IF write_blob(e.buf, "String", key).res.err # "Ok"
    THEN [e |-> e, res |-> write_blob(e.buf, "String", key).res]
    ELSE IF f.fails
    THEN [e |-> [e EXCEPT !.buf = write_blob(e.buf, "String", key).buf],
          res |-> Err("Malformed")]
    ELSE IF write_value(write_blob(e.buf, "String", key).buf, f.v).res.err # "Ok"
    THEN [e |-> [e EXCEPT !.buf = write_value(write_blob(e.buf, "String", key).buf, f.v).buf],
          res |-> write_value(write_blob(e.buf, "String", key).buf, f.v).res]
    ELSE IF e.stack[Len(e.stack)].count = U16_MAX
    THEN [e |-> [e EXCEPT !.buf = write_value(write_blob(e.buf, "String", key).buf, f.v).buf],
          res |-> Err("ContainerFull")]
    ELSE [e |-> [inc_count(e) EXCEPT
                    !.buf = write_value(write_blob(e.buf, "String", key).buf, f.v).buf],
          res |-> Ok(<<>>)]

\* MapEncoder::key(k): the key is written and the count is raised; the MapValueEncoder
\* returned is not part of the encoder's state
Map_key(e, k) ==
    IF write_blob(e.buf, "String", k).res.err # "Ok"
    THEN [e |-> e, res |-> write_blob(e.buf, "String", k).res]
    ELSE IF e.stack[Len(e.stack)].count = U16_MAX
    THEN [e |-> [e EXCEPT !.buf = write_blob(e.buf, "String", k).buf],
          res |-> Err("ContainerFull")]
    ELSE [e |-> [inc_count(e) EXCEPT !.buf = write_blob(e.buf, "String", k).buf],
          res |-> Ok(<<>>)]

\* finish() and Drop of ListEncoder, MapEncoder and ArrayEncoder: the count is written
\* over the placeholder (start + 1 and start + 2; start + 4 and start + 5 in an array)
scope_end(e) ==
    LET s == e.stack[Len(e.stack)]
        at == IF s.kind = "Array" THEN s.start + 4 ELSE s.start + 1
    IN  [buf |-> [e.buf EXCEPT ![at + 1] = to_le_bytes(s.count, 2)[1],
                               ![at + 2] = to_le_bytes(s.count, 2)[2]],
         stack |-> SubSeq(e.stack, 1, Len(e.stack) - 1)]

RECURSIVE unwind(_)
\* a panic unwinds: every open scope is dropped, innermost first
unwind(e) == IF e.stack = <<>> THEN e ELSE unwind(scope_end(e))

-----------------------------------------------------------------------------
(* neopack/decoder.rs: the container iterators.  An iterator is its reader *)
(* and the number of elements left; what next() gives is a record: err is  *)
(* the result, some tells Some from None, key is the map key, tag and val  *)
(* are the value read.                                                     *)

Yield(err, some, key, tag, val) ==
    [err |-> err, some |-> some, key |-> key, tag |-> tag, val |-> val]

\* Reader::list, Reader::map: the tag, then the u16 count; the iterator starts at the
\* reader's position with that count
Reader_iter(r, tag) ==
    IF Decoder_read_tag(r).res.err # "Ok" THEN Decoder_read_tag(r)
    ELSE IF Decoder_read_tag(r).res.val # tag
         THEN [d |-> Decoder_read_tag(r).d, res |-> Err("TypeMismatch")]
         ELSE Decoder_read_primitive(Decoder_read_tag(r).d, 2)

\* ValueReader::read once the tag t is read: the reader after the call and the value
\* (of a list or map its count, of an array the 5 bytes of item tag, stride and count)
ValueReader_body(r, t) ==
    LET got == IF scalar_size(t) > 0 THEN Decoder_read_primitive(r, scalar_size(t))
               ELSE IF t \in {"String", "Bytes", "Struct"} THEN Reader_blob_body(r)
               ELSE IF t \in {"List", "Map"} THEN Decoder_read_primitive(r, 2)
               ELSE Decoder_read_bytes(r, 5)
    IN  IF got.res.err # "Ok" THEN [d |-> got.d, y |-> Yield(got.res.err, FALSE, <<>>, t, <<>>)]
        ELSE [d |-> got.d,
              y |-> Yield("Ok", TRUE, <<>>, t,
                          IF t = "Bool" THEN <<IF got.res.val # 0 THEN 1 ELSE 0>>
                          ELSE IF t \in {"String", "Bytes", "Struct", "Array"} THEN got.res.val
                          ELSE <<got.res.val>>)]

\* ValueReader::read
ValueReader_read(r) ==
    IF Decoder_read_tag(r).res.err # "Ok"
    THEN [d |-> Decoder_read_tag(r).d,
          y |-> Yield(Decoder_read_tag(r).res.err, FALSE, <<>>, "None", <<>>)]
    ELSE ValueReader_body(Decoder_read_tag(r).d, Decoder_read_tag(r).res.val)

\* ListIter::next (kind = "List") and MapIter::next (kind = "Map"): the iterator after
\* the call and what the call gave
Iter_next(it, kind) ==
    IF it.remaining = 0 THEN [it |-> it, y |-> Yield("Ok", FALSE, <<>>, "None", <<>>)]
    ELSE IF kind = "List"
    THEN [it |-> [reader |-> ValueReader_read(it.reader).d, remaining |-> it.remaining - 1],
          y |-> ValueReader_read(it.reader).y]
    ELSE IF Reader_blob(it.reader, "String").res.err # "Ok"
    THEN [it |-> [reader |-> Reader_blob(it.reader, "String").d,
                  remaining |-> it.remaining - 1],
          y |-> Yield(Reader_blob(it.reader, "String").res.err, FALSE, <<>>, "None", <<>>)]
    ELSE [it |-> [reader |-> ValueReader_read(Reader_blob(it.reader, "String").d).d,
                  remaining |-> it.remaining - 1],
          y |-> [ValueReader_read(Reader_blob(it.reader, "String").d).y
                    EXCEPT !.key = Reader_blob(it.reader, "String").res.val]]

RECURSIVE iter_collect(_, _, _)
\* n calls of next(): what they gave, in order, and the reader's position at the end
iter_collect(it, kind, n) ==
    IF n = 0 THEN [out |-> <<>>, pos |-> it.reader.pos]
    ELSE [out |-> <<Iter_next(it, kind).y>> \o iter_collect(Iter_next(it, kind).it, kind, n - 1).out,
          pos |-> iter_collect(Iter_next(it, kind).it, kind, n - 1).pos]

\* Reader::new(buf), list() or map(), and next() until two calls past the count
decode_container(buf, kind) ==
    IF Reader_iter([buf |-> buf, pos |-> 0], kind).res.err # "Ok"
    THEN [out |-> <<Yield(Reader_iter([buf |-> buf, pos |-> 0], kind).res.err,
                         FALSE, <<>>, "None", <<>>)>>,
          pos |-> 0]
    ELSE iter_collect([reader |-> Reader_iter([buf |-> buf, pos |-> 0], kind).d,
                       remaining |-> Reader_iter([buf |-> buf, pos |-> 0], kind).res.val],
                      kind, Reader_iter([buf |-> buf, pos |-> 0], kind).res.val + 2)

-----------------------------------------------------------------------------
(* The run of an Encoder: one top-level container is opened, values and    *)
(* nested containers are written into the open scopes, scopes end by       *)
(* finish() or by being dropped.  The history keeps, per open scope, the   *)
(* buffer length when the scope was opened and what was written into it.   *)

\* calls on the encoder and its scopes per run
MaxEncOps == 5
\* open scopes at a time
MaxDepth == 2

EncValues == {[tag |-> "U8", val |-> <<7>>], [tag |-> "String", val |-> <<104>>]}
EncKeys == {<<97>>, <<98>>}

EncInit ==
    /\ pk = [e |-> [buf |-> <<>>, stack |-> <<>>],
             hist |-> <<>>,        \* per open scope: body0, items, clean
             op |-> "new",         \* the last call
             err |-> "Ok",         \* its result
             closed |-> [kind |-> "None", how |-> "None", start |-> 0, count |-> 0,
                         body0 |-> 0, items |-> <<>>, clean |-> TRUE, before |-> <<>>],
             done |-> FALSE,       \* the top-level container has ended
             panicked |-> FALSE,
             n |-> 0]
    /\ IsoIdle
    /\ CoreIdle
    /\ DiskIdle

EncOpen == ~pk.done /\ ~pk.panicked /\ pk.n < MaxEncOps
EncTop == pk.e.stack[Len(pk.e.stack)]

\* the history of the innermost scope after a call with result err that wrote item y
EncNoted(err, y) ==
    [pk.hist EXCEPT ![Len(pk.hist)] =
        [@ EXCEPT !.items = IF err = "Ok" THEN Append(@, y) ELSE @,
                  !.clean = @ /\ err = "Ok"]]

\* enc.list(), enc.map(), enc.array(..) on the encoder, or list.list(), list.map(),
\* list.array(..) on the innermost list
EncBegin ==
    \E kind \in {"List", "Map", "Array"} :
        /\ EncOpen
        /\ Len(pk.e.stack) < MaxDepth
        /\ \/ pk.e.stack = <<>>
           \/ pk.e.stack # <<>> /\ EncTop.kind = "List"
        /\ LET r == IF pk.e.stack = <<>>
                    THEN [e |-> Encoder_begin(pk.e, kind), res |-> Ok(<<>>)]
                    ELSE List_begin(pk.e, kind)
           IN  pk' = [pk EXCEPT !.e = r.e, !.op = "begin", !.err = r.res.err, !.n = @ + 1,
                                !.hist = IF r.res.err = "Ok"
                                         THEN Append(@, [body0 |-> Len(r.e.buf), items |-> <<>>,
                                                         clean |-> TRUE])
                                         ELSE @]
        /\ UNCHANGED <<isoVars, coreVars, diskVars>>

\* list.u8(7) or list.str("h") on the innermost list
EncListWrite ==
    \E v \in EncValues :
        /\ EncOpen
        /\ pk.e.stack # <<>>
        /\ EncTop.kind = "List"
        /\ pk' = [pk EXCEPT !.e = List_write(pk.e, v).e, !.op = "write",
                            !.err = List_write(pk.e, v).res.err, !.n = @ + 1,
                            !.hist = EncNoted(List_write(pk.e, v).res.err,
                                              Yield("Ok", TRUE, <<>>, v.tag, v.val))]
        /\ UNCHANGED <<isoVars, coreVars, diskVars>>

\* array.push(data) with data of the stride or one byte short
EncArrayPush ==
    \E data \in {<<1, 2>>, <<1>>} :
        /\ EncOpen
        /\ pk.e.stack # <<>>
        /\ EncTop.kind = "Array"
        /\ pk' = [pk EXCEPT !.e = Array_push(pk.e, data).e, !.op = "push",
                            !.err = Array_push(pk.e, data).res.err, !.n = @ + 1,
                            !.hist = EncNoted(Array_push(pk.e, data).res.err,
                                              Yield("Ok", TRUE, <<>>, "U16", data))]
        /\ UNCHANGED <<isoVars, coreVars, diskVars>>

\* map.entry(key, f): f writes one value, or returns an error before it writes (as
\* |e| e.str(s) does for an s beyond the blob limit)
EncEntry ==
    \E key \in EncKeys, v \in EncValues, fails \in BOOLEAN :
        /\ EncOpen
        /\ pk.e.stack # <<>>
        /\ EncTop.kind = "Map"
        /\ LET r == Map_entry(pk.e, key, [fails |-> fails, v |-> v])
           IN  pk' = [pk EXCEPT !.e = r.e, !.op = "entry", !.err = r.res.err, !.n = @ + 1,
                                !.hist = EncNoted(r.res.err, Yield("Ok", TRUE, key, v.tag, v.val))]
        /\ UNCHANGED <<isoVars, coreVars, diskVars>>

\* map.key(k) followed by a value method of the MapValueEncoder, or by its drop
\* without a value: Drop for MapValueEncoder panics and the open scopes unwind
EncKey ==
    \E key \in EncKeys, v \in EncValues, abandon \in BOOLEAN :
        /\ EncOpen
        /\ pk.e.stack # <<>>
        /\ EncTop.kind = "Map"
        /\ LET r == Map_key(pk.e, key)
           IN  IF r.res.err # "Ok"
               THEN pk' = [pk EXCEPT !.e = r.e, !.op = "key", !.err = r.res.err, !.n = @ + 1,
                                     !.hist = EncNoted(r.res.err, Yield("Ok", TRUE, key, v.tag, v.val))]
               ELSE IF abandon
               THEN pk' = [pk EXCEPT !.e = unwind(r.e), !.op = "key", !.err = "Panic",
                                     !.n = @ + 1, !.panicked = TRUE]
               ELSE pk' = [pk EXCEPT !.e = [r.e EXCEPT !.buf = write_value(r.e.buf, v).buf],
                                     !.op = "key", !.err = write_value(r.e.buf, v).res.err,
                                     !.n = @ + 1,
                                     !.hist = EncNoted(write_value(r.e.buf, v).res.err,
                                                       Yield("Ok", TRUE, key, v.tag, v.val))]
        /\ UNCHANGED <<isoVars, coreVars, diskVars>>

\* enc.array(tag, stride) on the encoder or list.array(tag, stride) on the innermost
\* list, with a stride that Encoder::array refuses
EncArrayStride ==
    \E stride \in {0, U16_MAX + 1} :
        /\ EncOpen
        /\ Len(pk.e.stack) < MaxDepth
        /\ \/ pk.e.stack = <<>>
           \/ pk.e.stack # <<>> /\ EncTop.kind = "List"
        /\ LET r == IF pk.e.stack = <<>> THEN Encoder_array(pk.e, stride)
                    ELSE List_array(pk.e, stride)
           IN  pk' = [pk EXCEPT !.e = r.e, !.op = "array", !.err = r.res.err, !.n = @ + 1,
                                !.hist = IF pk.hist = <<>> THEN @
                                         ELSE EncNoted(r.res.err,
                                                       Yield("Ok", TRUE, <<>>, "Array", <<0>>))]
        /\ UNCHANGED <<isoVars, coreVars, diskVars>>

\* the innermost scope ends: finish() is called or the scope is dropped
EncEnd ==
    \E how \in {"finish", "drop"} :
        /\ ~pk.done
        /\ ~pk.panicked
        /\ pk.e.stack # <<>>
        /\ pk' = [pk EXCEPT
                    !.e = scope_end(pk.e),
                    !.op = "end",
                    !.err = "Ok",
                    !.closed = [kind |-> EncTop.kind, how |-> how, start |-> EncTop.start,
                                count |-> EncTop.count,
                                body0 |-> pk.hist[Len(pk.hist)].body0,
                                items |-> pk.hist[Len(pk.hist)].items,
                                clean |-> pk.hist[Len(pk.hist)].clean,
                                before |-> pk.e.buf],
                    !.done = Len(pk.e.stack) = 1,
                    !.hist = IF Len(pk.hist) = 1 THEN <<>>
                             ELSE [SubSeq(pk.hist, 1, Len(pk.hist) - 1) EXCEPT
                                     ![Len(pk.hist) - 1] =
                                        [@ EXCEPT !.items = Append(@,
                                              Yield("Ok", TRUE, <<>>, EncTop.kind, <<EncTop.count>>)),
                                                  !.clean = @ /\ pk.hist[Len(pk.hist)].clean]]]
        /\ UNCHANGED <<isoVars, coreVars, diskVars>>

NextEnc ==
    EncBegin \/ EncListWrite \/ EncArrayPush \/ EncEntry \/ EncKey \/ EncArrayStride \/ EncEnd

SpecEnc == EncInit /\ [][NextEnc]_vars

\* C17: once a list, map or array scope ends, by finish() or by being dropped, the
\* container's length field describes exactly the body written in the scope, the
\* patch changes no byte outside that field, and the container occupies exactly
\* 1 (tag) + 4 (byte_len) + body_bytes bytes.
C17_ContainerLayout ==
    pk.op = "end"
        => /\ Len(pk.e.buf) - pk.closed.start = 1 + 4 + (Len(pk.e.buf) - pk.closed.body0)
           /\ from_le_bytes(SubSeq(pk.e.buf, pk.closed.start + 2, pk.closed.start + 5))
                = Len(pk.e.buf) - pk.closed.body0
           /\ Len(pk.e.buf) = Len(pk.closed.before)
           /\ \A i \in 1..Len(pk.e.buf) :
                i \notin (pk.closed.start + 2)..(pk.closed.start + 5)
                    => pk.e.buf[i] = pk.closed.before[i]

\* C17 as the encoder does it: the field is a u16 element count after the tag (after
\* tag, item tag and stride in an array); when the scope ends the field holds the
\* number of elements written in the scope, no other byte has changed, and the
\* container is its 3-byte (array: 6-byte) header followed by the body
C17_CountPatched ==
    pk.op = "end"
        => LET at == IF pk.closed.kind = "Array" THEN pk.closed.start + 4
                     ELSE pk.closed.start + 1
           IN  /\ pk.closed.body0 = at + 2
               /\ from_le_bytes(SubSeq(pk.e.buf, at + 1, at + 2)) = pk.closed.count
               /\ pk.closed.clean => pk.closed.count = Len(pk.closed.items)
               /\ Len(pk.e.buf) = Len(pk.closed.before)
               /\ \A i \in 1..Len(pk.e.buf) :
                    i \notin {at + 1, at + 2} => pk.e.buf[i] = pk.closed.before[i]

\* a list with two elements ended by being dropped, and its count field was patched to 2
C17_Witness ==
    /\ pk.op = "end"
    /\ pk.closed.kind = "List"
    /\ pk.closed.how = "drop"
    /\ Len(pk.closed.items) = 2
    /\ pk.closed.before[pk.closed.start + 2] = 0
    /\ pk.e.buf[pk.closed.start + 2] = 2

\* what next() gives once the iterator is exhausted
YieldNone == Yield("Ok", FALSE, <<>>, "None", <<>>)

\* C18: after any sequence of MapEncoder entry() and key() calls, whether each call
\* succeeds or fails, the encoded map body is a sequence of pairs in which every key is
\* followed by exactly one value, and the map's length field accounts for exactly
\* those pairs (an abandoned value slot of key() is surfaced as a panic).
C18_MapBodyIsPairs ==
    (pk.done /\ pk.closed.kind = "Map")
        => /\ pk.closed.count = Len(pk.closed.items)
           /\ decode_container(pk.e.buf, "Map").out = pk.closed.items \o <<YieldNone, YieldNone>>
           /\ decode_container(pk.e.buf, "Map").pos = Len(pk.e.buf)

\* C18 for the maps whose calls all succeeded: the body is exactly the pairs written,
\* each key with its value, and the count is their number
C18_CleanMapIsPairs ==
    (pk.done /\ pk.closed.kind = "Map" /\ pk.closed.clean)
        => /\ pk.closed.count = Len(pk.closed.items)
           /\ decode_container(pk.e.buf, "Map").out = pk.closed.items \o <<YieldNone, YieldNone>>
           /\ decode_container(pk.e.buf, "Map").pos = Len(pk.e.buf)

\* a map ended after an entry() whose closure failed and an entry() that succeeded
C18_Witness ==
    /\ pk.done
    /\ pk.closed.kind = "Map"
    /\ ~pk.closed.clean
    /\ Len(pk.closed.items) = 1

\* C20: iterating a decoded list or map yields exactly the entries that were written,
\* in write order, and then None on every further next(); map entries with duplicate
\* keys are all yielded, in insertion order.
C20_IterationYieldsWritten ==
    (/\ pk.done
     /\ pk.closed.kind \in {"List", "Map"}
     /\ pk.closed.clean
     /\ \A i \in 1..Len(pk.closed.items) : pk.closed.items[i].tag \in {"U8", "String"})
        => decode_container(pk.e.buf, pk.closed.kind).out
             = pk.closed.items \o <<YieldNone, YieldNone>>

\* a map with the same key written twice, with different values, was decoded and the
\* second entry came second, followed by None
C20_Witness ==
    /\ pk.done
    /\ pk.closed.clean
    /\ pk.closed.kind = "Map"
    /\ Len(pk.closed.items) = 2
    /\ pk.closed.items[1].key = pk.closed.items[2].key
    /\ pk.closed.items[1].tag # pk.closed.items[2].tag
    /\ decode_container(pk.e.buf, "Map").out[2] = pk.closed.items[2]
    /\ decode_container(pk.e.buf, "Map").out[3] = YieldNone

-----------------------------------------------------------------------------
(* examples/streaming_example.rs: bytes arrive in chunks; every chunk is   *)
(* appended to the StreamBuffer, messages are decoded from the unconsumed  *)
(* bytes until a read fails, the bytes the decoder advanced over are       *)
(* marked consumed, and the buffer is compacted.  The StreamBuffer is its  *)
(* unconsumed bytes: extend appends, cursor() and Decoder::with_cursor     *)
(* give a decoder at their start, mark_consumed(n) and compact() drop the  *)
(* first n of them.  The decoder is the Decoder of decoder_old.rs.         *)

\* messages in the stream
MaxMsgs == 2

\* ValueDecoder::read: the tag, the payload length (by the tag, or a u32), the payload
ValueDecoder_payload(t, body) ==
    IF body.res.err # "Ok" THEN body
    ELSE [d |-> body.d, res |-> Ok([tag |-> t, bytes |-> body.res.val])]

ValueDecoder_tagged(rt) ==
    IF rt.res.err # "Ok" THEN rt
    ELSE ValueDecoder_payload(rt.res.val,
                              IF scalar_size(rt.res.val) > 0
                              THEN Decoder_read_bytes(rt.d, scalar_size(rt.res.val))
                              ELSE Decoder_blob_body(rt.d))

ValueDecoder_read(d) == ValueDecoder_tagged(Decoder_read_tag(d))

\* the typed view of a value: as_str / as_u64 give the payload of a value of that tag
ValueDecoder_as(v, tag) ==
    IF v.res.err # "Ok" THEN v
    ELSE IF v.res.val.tag # tag THEN [d |-> v.d, res |-> Err("TypeMismatch")]
    ELSE [d |-> v.d, res |-> Ok(v.res.val.bytes)]

\* list.next()?.ok_or(Error::Malformed)?.as_str() / .as_u64() on the list's decoder
\* (ListDecoder::next is None at the end of the list's bytes)
list_next_as(d, tag) ==
    IF d.pos >= Len(d.buf) THEN [d |-> d, res |-> Err("Malformed")]
    ELSE ValueDecoder_as(ValueDecoder_read(d), tag)

\* read_user_message(decoder): the decoder after the call and (name, score) or the error
user_message_score(after, name, score) ==
    IF score.res.err # "Ok" THEN [d |-> after, res |-> score.res]
    ELSE [d |-> after, res |-> Ok(<<name.res.val, <<from_le_bytes(score.res.val)>> >>)]

user_message_name(after, name) ==
    IF name.res.err # "Ok" THEN [d |-> after, res |-> name.res]
    ELSE user_message_score(after, name, list_next_as(name.d, "U64"))

user_message_list(list) ==
    IF list.res.err # "Ok" THEN list
    ELSE user_message_name(list.d, list_next_as([buf |-> list.res.val, pos |-> 0], "String"))

read_user_message(d) == user_message_list(expect_blob(d, "List"))

RECURSIVE read_messages(_, _)
RECURSIVE read_messages_step(_, _)
\* the loop of the example: read_user_message until it fails; the decoder where the
\* loop stopped, the messages processed and the error that stopped it
read_messages_step(r, out) ==
    IF r.res.err # "Ok" THEN [d |-> r.d, out |-> out, err |-> r.res.err]
    ELSE read_messages(r.d, Append(out, r.res.val))

read_messages(d, out) == read_messages_step(read_user_message(d), out)

\* create_message_chunk: each message is a list [str name, u64 score] in the layout
\* the decoder reads
UserMsgs == <<<< <<65>>, <<100>> >>, << <<66>>, <<200>> >>, << <<67>>, <<300>> >> >>
message_bytes(m) ==
    old_blob("List", old_blob("String", m[1]) \o write_scalar(<<>>, "U64", m[2][1]))
message_chunk == Concat([i \in 1..MaxMsgs |-> message_bytes(UserMsgs[i])])

StreamInit ==
    /\ pk = [rest |-> message_chunk,   \* the bytes not yet received
             stream |-> <<>>,          \* the StreamBuffer
             delivered |-> <<>>,       \* the messages processed, in order
             aligned |-> TRUE,         \* every chunk so far ended where a message ends
             err |-> "Ok",             \* the error that stopped the last decode loop
             chunks |-> 0]
    /\ IsoIdle
    /\ CoreIdle
    /\ DiskIdle

\* the messages of the first k messages end at this many bytes of the stream
message_end(k) == Len(Concat([i \in 1..k |-> message_bytes(UserMsgs[i])]))

\* mark_consumed(initial_remaining - decoder.remaining()) and compact(), after the loop
Received(n, buf, loop) ==
    /\ pk' = [rest |-> SubSeq(pk.rest, n + 1, Len(pk.rest)),
              stream |-> SubSeq(buf, (Len(buf) - (Len(buf) - loop.d.pos)) + 1, Len(buf)),
              delivered |-> pk.delivered \o loop.out,
              aligned |-> pk.aligned /\
                          \E k \in 0..MaxMsgs :
                              Len(message_chunk) - (Len(pk.rest) - n) = message_end(k),
              err |-> loop.err,
              chunks |-> pk.chunks + 1]
    /\ UNCHANGED <<isoVars, coreVars, diskVars>>

\* stream.extend(chunk), then the decode loop over a cursor on the unconsumed bytes
Extended(n, buf) == Received(n, buf, read_messages([buf |-> buf, pos |-> 0], <<>>))

\* a chunk of n bytes arrives: extend, decode until a read fails, mark_consumed, compact
Receive == \E n \in 1..Len(pk.rest) : Extended(n, pk.stream \o SubSeq(pk.rest, 1, n))

NextStream == Receive

SpecStream == StreamInit /\ [][NextStream]_vars

\* C16: streaming is chunking-independent: however the stream is split into chunks,
\* the loop delivers exactly the messages of the stream, in order, each once - the
\* same sequence as decoding the whole stream in one piece.
C16_ChunkingIndependent ==
    pk.rest = <<>>
        => pk.delivered = read_messages([buf |-> message_chunk, pos |-> 0], <<>>).out

\* C16 for the splits whose every chunk ends where a message ends: all messages are
\* delivered, in order, each once, and nothing is left in the buffer
C16_AlignedChunks ==
    (pk.rest = <<>> /\ pk.aligned)
        => /\ pk.delivered = [i \in 1..MaxMsgs |-> UserMsgs[i]]
           /\ pk.stream = <<>>

\* the stream arrived in one chunk per message and both messages were delivered
C16_Witness ==
    /\ pk.rest = <<>>
    /\ pk.aligned
    /\ pk.chunks = MaxMsgs
    /\ Len(pk.delivered) = MaxMsgs

-----------------------------------------------------------------------------
(* The run of a Core close to the end of its id range: a core that was     *)
(* flushed with s messages, s within MaxCoreLen of MessageId::FULL, is     *)
(* loaded and then appended to, read and flushed.  Of the message files of *)
(* the directory only the last one is kept, and coreAux.hist holds the     *)
(* messages added since the load.                                          *)

FullDir(s) ==
    fs_write(fs_write(NoFiles, to_file_name(s - 1), <<3>>), INFO_CORE, write_size(s))

CoreFullInit ==
    /\ \E s \in (FULL - MaxCoreLen)..FULL :
          /\ dir = FullDir(s)
          /\ core = CoreLoad(FullDir(s)).val
          /\ coreAux = [CoreAuxInit EXCEPT !.base = s, !.last = "load"]
    /\ IsoIdle
    /\ DiskIdle
    /\ PackIdle

NextCoreFull == CoreAdd \/ CoreLoadMessage \/ CoreGetContents \/ CoreFlushCall

SpecCoreFull == CoreFullInit /\ [][NextCoreFull]_vars

\* C21: add_message returns CoreFull exactly when next_id is 0xFFFF; the failed call
\* leaves next_id, the cache and the message table as they were; and no message is
\* ever stored under id 0xFFFF.
C21_CoreFullAtEndOfRange ==
    /\ \A m \in CoreMsgs :
          /\ CoreAddMessage(core, m).res.err = "CoreFull" <=> core.next_id = FULL
          /\ core.next_id = FULL => CoreAddMessage(core, m).core = core
          /\ core.next_id # FULL => CoreAddMessage(core, m).res = Ok(core.next_id)
    /\ FULL \notin DOMAIN core.messages
    /\ to_file_name(FULL) \notin DOMAIN dir
    /\ (coreAux.last = "add" /\ coreAux.last_res # "Ok")
          => coreAux.last_res = "CoreFull" /\ core.next_id = FULL

\* the last id of the range was given out and stored, and the next add_message failed
C21_Witness ==
    /\ coreAux.last = "add"
    /\ coreAux.last_res = "CoreFull"
    /\ core.next_id = FULL
    /\ (FULL - 1) \in DOMAIN core.messages
    /\ Len(coreAux.ids) > 0
    /\ coreAux.ids[Len(coreAux.ids)] = FULL - 1

\* C22: for every id >= len(), get_contents(id) and load_message(id) return
\* FutureMessage and leave the core as it was; for every id < len() they never return
\* FutureMessage.
C22_FutureMessageBeyondLen ==
    \A id \in ReadIds \cup {CoreLen(core) + 1} :
        IF id >= CoreLen(core)
        THEN /\ get_contents(core, dir, id) = [core |-> core, res |-> Err("FutureMessage")]
             /\ load_message(core, dir, id) = [core |-> core, res |-> Err("FutureMessage")]
        ELSE /\ get_contents(core, dir, id).res.err # "FutureMessage"
             /\ load_message(core, dir, id).res.err # "FutureMessage"

\* a read of an id past the end was refused on a log that holds messages, some cached
C22_Witness ==
    /\ coreAux.last \in {"get_contents", "load_message"}
    /\ coreAux.last_res = "FutureMessage"
    /\ CoreLen(core) > 1
    /\ core.cache # <<>>

-----------------------------------------------------------------------------
(* The inner log of the IsoCore run *)

\* the node of covering y built from the appended messages: for a leaf the digest and
\* the data id of its item, for a branch the hashes and slots of its WIDTH children
node_of(msgs, y) ==
    IF decode_covering(y, WIDTH)[2] = 0
    THEN [children |-> <<[node_type |-> "Leaf",
                          hash |-> hash(msgs[decode_covering(y, WIDTH)[1] + 1]),
                          index |-> decode_covering(y, WIDTH)[1]]>>]
    ELSE [children |-> [c \in 1..WIDTH |->
                          [node_type |-> "Branch",
                           hash |-> node_hash(msgs, children_for_covering(y, WIDTH)[c]),
                           index |-> to_verkle_id(children_for_covering(y, WIDTH)[c])]]]

\* C23: in every state reached by successful add_message calls the node built for
\* covering id y is stored at slot y of the inner log: verkle_core.add_message gives
\* the node of y the id y, for every y of coverings_for_item.
C23_NodeStoredAtItsCoveringId ==
    /\ \A n \in 0..(IsoLen(iso) - 1) :
          \A y \in coverings_for_item(n, WIDTH)[1]..(coverings_for_item(n, WIDTH)[2] - 1) :
              /\ y < CoreLen(iso.verkle_core)
              /\ get_contents(iso.verkle_core, fs.verkle, to_verkle_id(y)).res
                    = Ok(NodeToBytes(node_of(isoAux.orig, y)))
              /\ get_node(iso, fs, y).res = Ok(node_of(isoAux.orig, y))
    /\ \A m \in Msgs :
          (isoAux.alive /\ IsoLen(iso) < MaxLen) =>
              \* the first node of the next append gets the id of its covering
              CoreAddMessage(iso.verkle_core, m).res
                  = Ok(coverings_for_item(IsoLen(iso), WIDTH)[1])

\* the first branch node (covering WIDTH) and the leaf after it (covering WIDTH + 1)
\* are stored, and the store was loaded from its directory
C23_Witness ==
    /\ isoAux.add_err = "Ok"
    /\ isoAux.loads > 0
    /\ IsoLen(iso) > WIDTH
    /\ get_node(iso, fs, WIDTH).res = Ok(node_of(isoAux.orig, WIDTH))
    /\ Len(node_of(isoAux.orig, WIDTH).children) = WIDTH
    /\ Len(node_of(isoAux.orig, WIDTH + 1).children) = 1

-----------------------------------------------------------------------------
(* The IsoCore run with an outsider who rewrites a stored inner node: the  *)
(* hash of the node's first child is replaced, the first line of the file  *)
(* (the hash the node claims for itself) is left as it was.                *)

\* the node with the hash of its first child replaced by that of other bytes (for a
\* branch child, by the hash of the leaf node of other bytes)
altered_node(node, bytes) ==
    [node EXCEPT !.children[1].hash =
        IF node.children[1].node_type = "Leaf" THEN hash(bytes) ELSE hash(<<hash(bytes)>>)]

\* the file of node y is rewritten with the altered node under its old first line
TamperedNode(y, old, bytes) ==
    /\ old.err = "Ok"
    /\ altered_node(old.val, bytes) # old.val
    /\ fs' = [fs EXCEPT !.verkle = fs_write(@, to_file_name(to_verkle_id(y)),
                 <<Head(fs.verkle[to_file_name(to_verkle_id(y))])>>
                 \o Tail(NodeToBytes(altered_node(old.val, bytes))))]

\* the nodes the outsider rewrites: the first leaf, the last leaf under the first
\* branch, and the first branch
TamperIds == {0, WIDTH - 1, WIDTH}

TamperNode ==
    \E y \in TamperIds, bytes \in Msgs :
        /\ isoAux.tampers < MaxTampers
        /\ to_file_name(to_verkle_id(y)) \in DOMAIN fs.verkle
        /\ TamperedNode(y, NodeFromBytes(fs.verkle[to_file_name(to_verkle_id(y))]), bytes)
        /\ isoAux' = [isoAux EXCEPT !.tampers = @ + 1]
        /\ UNCHANGED <<iso, coreVars, diskVars, packVars>>

NextTamperNode == AddMessage \/ GetMessage \/ Flush \/ Load \/ TamperNode

SpecTamperNode == Init /\ [][NextTamperNode]_vars

\* the bytes the store takes for the node of covering y: its cached copy, else the file
held_node(y) == get_contents(iso.verkle_core, fs.verkle, to_verkle_id(y)).res

\* the stored nodes whose children no longer hash to the hash the node claims
AlteredNodes ==
    {y \in 0..(CoreLen(iso.verkle_core) - 1) :
        /\ held_node(y).err = "Ok"
        /\ NodeFromBytes(held_node(y).val).err = "Ok"
        /\ to_hex(compute_hash(NodeFromBytes(held_node(y).val).val)) # Head(held_node(y).val)}

\* the nodes the next add_message reads: the children of the nodes it builds and the
\* peaks it bags
NextReads ==
    UNION {{children_for_covering(c, WIDTH)[k] : k \in 1..Len(children_for_covering(c, WIDTH))} :
              c \in coverings_for_item(IsoLen(iso), WIDTH)[1]
                       ..(coverings_for_item(IsoLen(iso), WIDTH)[2] - 1)}
    \cup {get_peaks(IsoLen(iso) + 1, WIDTH)[k] :
              k \in 1..Len(get_peaks(IsoLen(iso) + 1, WIDTH))}

\* C24: whenever an inner node is read (by get_message, or by add_message while
\* building a parent or bagging the peaks) its hash is recomputed from its children
\* and compared with the hash claimed for it; if the stored node was altered so that
\* the two differ, the operation fails instead of using the altered node.
C24_AlteredNodeRefused ==
    isoAux.alive =>
        \A y \in AlteredNodes :
            /\ get_node(iso, fs, y).res.err # "Ok"
            /\ decode_covering(y, WIDTH)[2] = 0
                  => IsoGetMessage(iso, fs, decode_covering(y, WIDTH)[1]).res.err # "Ok"
            /\ (IsoLen(iso) < MaxLen /\ y \in NextReads)
                  => \A m \in Msgs : IsoAddMessage(iso, fs, m, Owner).res.err # "Ok"

\* C24 for add_message alone: an add_message that reads an altered node fails
C24_AddRefusesAlteredNode ==
    (isoAux.alive /\ IsoLen(iso) < MaxLen /\ AlteredNodes \cap NextReads # {})
        => \A m \in Msgs : IsoAddMessage(iso, fs, m, Owner).res.err # "Ok"

\* C24 for get_message alone: the message under an altered leaf node is not returned,
\* because the leaf's child hash no longer matches the data
C24_GetMessageRefusesAlteredLeaf ==
    isoAux.alive =>
        \A y \in AlteredNodes :
            decode_covering(y, WIDTH)[2] = 0
                => IsoGetMessage(iso, fs, decode_covering(y, WIDTH)[1]).res
                      = Err("IntegrityError")

\* a loaded store holds an altered node and an add_message that read it succeeded
C24_Witness ==
    /\ isoAux.alive
    /\ isoAux.loads > 0
    /\ isoAux.add_err = "Ok"
    /\ IsoLen(iso) > isoAux.loaded[1]
    /\ AlteredNodes # {}
    /\ \E y \in AlteredNodes :
          \E k \in 1..Len(get_peaks(IsoLen(iso), WIDTH)) : get_peaks(IsoLen(iso), WIDTH)[k] = y

-----------------------------------------------------------------------------
(* covering.rs on its own: items are appended to a tree of width w, each   *)
(* append completes the nodes of coverings_for_item, and the tree is       *)
(* walked down from the node the last append completed.                    *)

\* items appended
MaxItems == 64

\* the widths of the run: powers of two above 1
Widths == {2, 4, 8}

CoveringInit ==
    /\ \E w \in Widths :
          pk = [w |-> w,     \* the width of the tree
                n |-> 0,     \* the items appended
                next |-> 0,  \* the nodes completed: the end of the last coverings_for_item
                y |-> 0]     \* the node the walk is at
    /\ IsoIdle
    /\ CoreIdle
    /\ DiskIdle

\* item pk.n is appended: its coverings are completed, the walk starts at their root
CovAppend ==
    /\ pk.n < MaxItems
    /\ pk' = [pk EXCEPT !.n = @ + 1,
                        !.next = coverings_for_item(pk.n, pk.w)[2],
                        !.y = coverings_for_item(pk.n, pk.w)[2] - 1]
    /\ UNCHANGED <<isoVars, coreVars, diskVars>>

\* the walk steps to a child of its node
CovDescend ==
    \E k \in 1..Len(children_for_covering(pk.y, pk.w)) :
        /\ pk.n > 0
        /\ pk' = [pk EXCEPT !.y = children_for_covering(pk.y, pk.w)[k]]
        /\ UNCHANGED <<isoVars, coreVars, diskVars>>

NextCovering == CovAppend \/ CovDescend

SpecCovering == CoveringInit /\ [][NextCovering]_vars

\* the number of trailing zero digits of m > 0 written in base w
base_w_zeros(m, w) ==
    CHOOSE h \in 0..10 : m % pow(w, h) = 0 /\ m % pow(w, h + 1) # 0

\* C25: for every n >= 0 and every power-of-two width W > 1,
\* covering_range(map_item_to_covering(n, W), W) = n..n+1: the node at a leaf's
\* post-order index covers exactly that leaf.
C25_LeafCoversItsItem ==
    \A n \in {pk.n, pk.n - 1} \cap Nat :
        covering_range(map_item_to_covering(n, pk.w), pk.w) = <<n, n + 1>>

\* an item past the first node of height 2 was appended
C25_Witness ==
    /\ pk.n > pk.w * pk.w
    /\ pk.y = map_item_to_covering(pk.n - 1, pk.w)
    /\ covering_range(pk.y, pk.w) = <<pk.n - 1, pk.n>>

\* C26: for every node y and power-of-two W > 1, with h the height decode_covering
\* gives y: map_item_to_covering(covering_range(y).end - 1) + h = y, h is at most the
\* number of trailing base-W zeros of covering_range(y).end, and covering_range(y)
\* has exactly W^h leaves.
C26_DecodeInvertsMap ==
    pk.n > 0 =>
        /\ map_item_to_covering(covering_range(pk.y, pk.w)[2] - 1, pk.w)
              + decode_covering(pk.y, pk.w)[2] = pk.y
        /\ decode_covering(pk.y, pk.w)[2]
              <= base_w_zeros(covering_range(pk.y, pk.w)[2], pk.w)
        /\ covering_range(pk.y, pk.w)[2] - covering_range(pk.y, pk.w)[1]
              = pow(pk.w, decode_covering(pk.y, pk.w)[2])
        /\ covering_range(pk.y, pk.w)[1] >= 0

\* the walk is at a node of height 1 that is not the highest node of its item
C26_Witness ==
    /\ pk.n > 0
    /\ decode_covering(pk.y, pk.w)[2] = 1
    /\ base_w_zeros(covering_range(pk.y, pk.w)[2], pk.w) > 1

\* C27: coverings_for_item(n) is the half-open range from map_item_to_covering(n) to
\* map_item_to_covering(n) + h + 1, h the number of trailing base-W zeros of n + 1,
\* and these ranges tile the node ids in item order: the first starts at 0 and each
\* starts where the one before ends.
C27_CoveringsTile ==
    /\ coverings_for_item(pk.n, pk.w)
          = <<map_item_to_covering(pk.n, pk.w),
              map_item_to_covering(pk.n, pk.w) + base_w_zeros(pk.n + 1, pk.w) + 1>>
    /\ coverings_for_item(pk.n, pk.w)[1] = pk.next
    /\ pk.n = 0 => coverings_for_item(pk.n, pk.w)[1] = 0
    /\ coverings_for_item(pk.n, pk.w)[2] = coverings_for_item(pk.n + 1, pk.w)[1]

\* the last append completed three nodes at once and the next range starts after them
C27_Witness ==
    /\ pk.n > 0
    /\ pk.next - coverings_for_item(pk.n - 1, pk.w)[1] = 3
    /\ coverings_for_item(pk.n, pk.w)[1] = pk.next

\* C28: children_for_covering(y, W) is empty when y is a leaf node and otherwise W
\* node ids in strictly increasing order, the last being y - 1, whose covering_ranges
\* are consecutive ranges of W^(h-1) leaves each that together partition
\* covering_range(y).
C28_ChildrenPartitionRange ==
    pk.n > 0 =>
        IF decode_covering(pk.y, pk.w)[2] = 0
        THEN children_for_covering(pk.y, pk.w) = <<>>
        ELSE /\ Len(children_for_covering(pk.y, pk.w)) = pk.w
             /\ children_for_covering(pk.y, pk.w)[pk.w] = pk.y - 1
             /\ \A k \in 1..(pk.w - 1) :
                   /\ children_for_covering(pk.y, pk.w)[k]
                         < children_for_covering(pk.y, pk.w)[k + 1]
                   /\ covering_range(children_for_covering(pk.y, pk.w)[k], pk.w)[2]
                         = covering_range(children_for_covering(pk.y, pk.w)[k + 1], pk.w)[1]
             /\ \A k \in 1..pk.w :
                   covering_range(children_for_covering(pk.y, pk.w)[k], pk.w)[2]
                     - covering_range(children_for_covering(pk.y, pk.w)[k], pk.w)[1]
                         = pow(pk.w, decode_covering(pk.y, pk.w)[2] - 1)
             /\ covering_range(children_for_covering(pk.y, pk.w)[1], pk.w)[1]
                   = covering_range(pk.y, pk.w)[1]
             /\ covering_range(children_for_covering(pk.y, pk.w)[pk.w], pk.w)[2]
                   = covering_range(pk.y, pk.w)[2]

\* the walk is at the node of height 2 of a tree of width 4, covering 20, whose
\* children are the nodes 4, 9, 14, 19
C28_Witness ==
    /\ pk.w = 4
    /\ pk.y = 20
    /\ decode_covering(pk.y, pk.w)[2] = 2
    /\ children_for_covering(pk.y, pk.w) = <<4, 9, 14, 19>>

-----------------------------------------------------------------------------
(* jumpheader.rs: the skip list of frame indices *)

\* bit bit_pos of m is set: m & (1 << bit_pos) != 0.  The frame indices of the run are
\* below 2^31, so no bit from 31 up is set
bit_set(m, bit_pos) == bit_pos < 31 /\ (m \div pow(2, bit_pos)) % 2 = 1

RECURSIVE jump_loop(_, _, _, _)
\* the loop of compute_jump_indices over the bit positions from bit_pos down to 0
jump_loop(n_minus_1, bit_pos, accumulator, jumps) ==
    IF bit_pos < 0 THEN jumps
    ELSE IF bit_set(n_minus_1, bit_pos)
    THEN jump_loop(n_minus_1, bit_pos - 1, accumulator + pow(2, bit_pos),
                   Append(jumps, accumulator + pow(2, bit_pos)))
    ELSE jump_loop(n_minus_1, bit_pos - 1, accumulator, jumps)

RECURSIVE jump_loop_powers(_, _, _)
\* a compute_jump_indices that pushes each power of two instead of the running sum
jump_loop_powers(n_minus_1, bit_pos, jumps) ==
    IF bit_pos < 0 THEN jumps
    ELSE IF bit_set(n_minus_1, bit_pos)
    THEN jump_loop_powers(n_minus_1, bit_pos - 1, Append(jumps, pow(2, bit_pos)))
    ELSE jump_loop_powers(n_minus_1, bit_pos - 1, jumps)

compute_jump_indices_powers(frame_index) ==
    IF frame_index = 0 THEN <<>> ELSE jump_loop_powers(frame_index - 1, 63, <<>>)

compute_jump_indices(frame_index) ==
    IF frame_index = 0 THEN <<>> ELSE jump_loop(frame_index - 1, 63, 0, <<>>)

\* jumps.iter().find(|jump_target| jump_target >= to): the positions that qualify
find_ge(jumps, to) == {k \in 1..Len(jumps) : jumps[k] >= to}

\* Option<Vec<u64>>
None == [some |-> FALSE, path |-> <<>>]
Some(path) == [some |-> TRUE, path |-> path]

RECURSIVE path_loop(_, _, _)
\* the while loop of find_jump_path
path_loop(path, current, to) ==
    IF current <= to THEN Some(path)
    ELSE IF compute_jump_indices(current) = <<>>
    THEN IF to = 0 THEN Some(Append(path, 0)) ELSE None
    ELSE IF find_ge(compute_jump_indices(current), to) = {} THEN None
    ELSE path_loop(Append(path, compute_jump_indices(current)[
                       CHOOSE k \in find_ge(compute_jump_indices(current), to) :
                          \A j \in find_ge(compute_jump_indices(current), to) : k <= j]),
                   compute_jump_indices(current)[
                       CHOOSE k \in find_ge(compute_jump_indices(current), to) :
                          \A j \in find_ge(compute_jump_indices(current), to) : k <= j],
                   to)

find_jump_path(from, to) ==
    IF to >= from THEN None ELSE path_loop(<<from>>, from, to)

\* the highest frame index of the run
MaxFrame == 40

JumpInit ==
    /\ \E from \in 0..MaxFrame, to \in 0..MaxFrame :
          pk = [from |-> from, to |-> to,
                called |-> FALSE,   \* find_jump_path has returned
                res |-> None,       \* what it returned
                at |-> 0]           \* how many steps of the path were followed
    /\ IsoIdle
    /\ CoreIdle
    /\ DiskIdle

\* find_jump_path(from, to)
JumpFind ==
    /\ ~pk.called
    /\ pk' = [pk EXCEPT !.called = TRUE, !.res = find_jump_path(pk.from, pk.to)]
    /\ UNCHANGED <<isoVars, coreVars, diskVars>>

\* the caller visits the next frame of the path
JumpFollow ==
    /\ pk.called
    /\ pk.at + 1 < Len(pk.res.path)
    /\ pk' = [pk EXCEPT !.at = @ + 1]
    /\ UNCHANGED <<isoVars, coreVars, diskVars>>

NextJump == JumpFind \/ JumpFollow

SpecJump == JumpInit /\ [][NextJump]_vars

\* the elements of s
Range(s) == {s[k] : k \in 1..Len(s)}

\* the least k with 2^k >= n
ceil_log2(n) == CHOOSE k \in 0..31 : pow(2, k) >= n /\ (k = 0 \/ pow(2, k - 1) < n)

\* C29: for every pair to < from (including to = 0) find_jump_path(from, to) returns a
\* list that starts with from, ends with to, is strictly decreasing, and in which every
\* element after the first is one of compute_jump_indices of the element before it.
C29_PathFollowsJumps ==
    (pk.called /\ pk.to < pk.from) =>
        /\ pk.res.some
        /\ pk.res.path[1] = pk.from
        /\ pk.res.path[Len(pk.res.path)] = pk.to
        /\ \A k \in 1..(Len(pk.res.path) - 1) :
              /\ pk.res.path[k] > pk.res.path[k + 1]
              /\ pk.res.path[k + 1] \in Range(compute_jump_indices(pk.res.path[k]))

\* C29 for to >= 1, and for to = 0 up to the last step: the path starts with from, ends
\* with to and is strictly decreasing; every step is in the jump set of the frame before
\* it, except the step from frame 1 to frame 0 that ends every path to frame 0
C29_PathFollowsJumpsDownToOne ==
    (pk.called /\ pk.to < pk.from) =>
        /\ pk.res.some
        /\ pk.res.path[1] = pk.from
        /\ pk.res.path[Len(pk.res.path)] = pk.to
        /\ \A k \in 1..(Len(pk.res.path) - 1) :
              /\ pk.res.path[k] > pk.res.path[k + 1]
              /\ pk.res.path[k + 1] \in Range(compute_jump_indices(pk.res.path[k]))
                    \/ (pk.to = 0 /\ pk.res.path[k] = 1 /\ pk.res.path[k + 1] = 0)
        /\ pk.to = 0 => pk.res.path[Len(pk.res.path) - 1] = 1

\* the path from frame 24 to frame 17 was followed to its end
C29_Witness ==
    /\ pk.called
    /\ pk.from = 24 /\ pk.to = 17
    /\ pk.res = Some(<<24, 20, 18, 17>>)
    /\ pk.at + 1 = Len(pk.res.path)

\* C30: for every pair to < from the list find_jump_path(from, to) returns has at most
\* 1 + ceil(log2(from)) elements, from and to counted.
C30_PathLength ==
    (pk.called /\ pk.to < pk.from) =>
        Len(pk.res.path) <= 1 + ceil_log2(pk.from)

\* C30 for to >= 1
C30_PathLengthAboveZero ==
    (pk.called /\ 0 < pk.to /\ pk.to < pk.from) =>
        Len(pk.res.path) <= 1 + ceil_log2(pk.from)

\* C30 with one more element allowed for the step to frame 0
C30_PathLengthToZero ==
    (pk.called /\ pk.to < pk.from) =>
        Len(pk.res.path) <= 1 + ceil_log2(pk.from) + (IF pk.to = 0 THEN 1 ELSE 0)

\* a path to frame 0 that is longer than 1 + ceil(log2(from))
C30_Witness ==
    /\ pk.called
    /\ pk.to = 0 /\ pk.from = 24
    /\ Len(pk.res.path) = 7
    /\ pk.at + 1 = Len(pk.res.path)

-----------------------------------------------------------------------------
(* The jump lists of the frames of the jump run *)

RECURSIVE popcount(_)
\* the number of set bits of m
popcount(m) == IF m = 0 THEN 0 ELSE (m % 2) + popcount(m \div 2)

\* the frames whose jump list the run has computed once find_jump_path has returned:
\* the frame it started from and the frame of the path the caller is at
JumpFrames ==
    IF ~pk.called THEN {}
    ELSE {pk.from} \cup (IF pk.res.some THEN {pk.res.path[pk.at + 1]} ELSE {})

set_bits(m) == {k \in 0..30 : bit_set(m, k)}

-----------------------------------------------------------------------------
(* jumpheader.rs: the FrameHeader, and the frames of the NeoDisk run *)

RECURSIVE jump_list(_, _)
RECURSIVE jump_list_item(_, _)
\* the loop of FrameHeader::decode over the jump list: jump_list.next()?, as_u64()?
jump_list_item(val, acc) ==
    IF val.res.err # "Ok" THEN val.res
    ELSE jump_list(val.d, Append(acc, from_le_bytes(val.res.val)))

jump_list(d, acc) ==
    IF d.pos >= Len(d.buf) THEN Ok(acc)
    ELSE jump_list_item(ValueDecoder_as(ValueDecoder_read(d), "U64"), acc)

\* FrameHeader::decode, field by field
header_jumps(frame_number, compressed_size, decompressed_size, jumps) ==
    IF jumps.err # "Ok" THEN jumps
    ELSE Ok([frame_number |-> frame_number, compressed_size |-> compressed_size,
             decompressed_size |-> decompressed_size, jump_offsets |-> jumps.val])

header_jump_list(frame_number, compressed_size, decompressed_size, jump_list_val) ==
    IF jump_list_val.res.err # "Ok" THEN jump_list_val.res
    ELSE header_jumps(frame_number, compressed_size, decompressed_size,
                      jump_list([buf |-> jump_list_val.res.val, pos |-> 0], <<>>))

header_decompressed_size(frame_number, compressed_size, v) ==
    IF v.res.err # "Ok" THEN v.res
    ELSE header_jump_list(frame_number, compressed_size, from_le_bytes(v.res.val),
                          list_next_as(v.d, "List"))

header_compressed_size(frame_number, v) ==
    IF v.res.err # "Ok" THEN v.res
    ELSE header_decompressed_size(frame_number, from_le_bytes(v.res.val),
                                  list_next_as(v.d, "U64"))

header_frame_number(v) ==
    IF v.res.err # "Ok" THEN v.res
    ELSE header_compressed_size(from_le_bytes(v.res.val), list_next_as(v.d, "U64"))

header_list(list) ==
    IF list.res.err # "Ok" THEN list.res
    ELSE header_frame_number(list_next_as([buf |-> list.res.val, pos |-> 0], "U64"))

FrameHeader_decode(bytes) == header_list(expect_blob([buf |-> bytes, pos |-> 0], "List"))

\* the offsets of the file at which the header of frame N is stored
HeaderOffsets(N) ==
    {h \in 0..(Len(ndFile) - 1) :
        /\ FrameHeader_decode(SubSeq(ndFile, h + 1, Len(ndFile))).err = "Ok"
        /\ FrameHeader_decode(SubSeq(ndFile, h + 1, Len(ndFile))).val.frame_number = N}

\* the jump_offsets of the header stored at offset h
jump_offsets_at(h) == FrameHeader_decode(SubSeq(ndFile, h + 1, Len(ndFile))).val.jump_offsets

\* C32: for every frame N written by the NeoDisk writer, the frame's stored header
\* carries a jump_offsets list of the same length as compute_jump_indices(N) whose i-th
\* entry is the absolute file offset of the header of frame compute_jump_indices(N)[i],
\* an offset strictly smaller than that of frame N's own header.
C32_FramesCarryJumpOffsets ==
    \A N \in 0..(Len(nd.frames) - 1) :
        \E h \in HeaderOffsets(N) :
            /\ Len(jump_offsets_at(h)) = Len(compute_jump_indices(N))
            /\ \A i \in 1..Len(compute_jump_indices(N)) :
                  /\ jump_offsets_at(h)[i] \in HeaderOffsets(compute_jump_indices(N)[i])
                  /\ jump_offsets_at(h)[i] < h

\* the writer has written three frames and the file holds no frame header at all
C32_Witness ==
    /\ Len(nd.frames) = 3
    /\ ndAux.base_frames = 0
    /\ \A N \in 0..2 : HeaderOffsets(N) = {}
    /\ Len(compute_jump_indices(2)) = 1

-----------------------------------------------------------------------------
(* covering.rs: the closed form of map_item_to_covering *)

RECURSIVE geometric_sum(_, _, _)
\* the sum over k >= from of floor(n / w^k); its terms are 0 once w^k > n
geometric_sum(n, w, from) ==
    IF pow(w, from) > n THEN 0
    ELSE (n \div pow(w, from)) + geometric_sum(n, w, from + 1)

\* C34: for every n >= 0 and power-of-two W > 1, map_item_to_covering(n, W) equals
\* n plus the sum over k >= 1 of floor(n / W^k), and it is strictly increasing in n.
C34_MapIsGeometricSum ==
    /\ map_item_to_covering(pk.n, pk.w) = pk.n + geometric_sum(pk.n, pk.w, 1)
    /\ \A m \in 0..(pk.n - 1) :
          map_item_to_covering(m, pk.w) < map_item_to_covering(pk.n, pk.w)

\* an item whose sum has three terms was appended and mapped to its leaf
C34_Witness ==
    /\ pk.n - 1 >= pk.w * pk.w * pk.w
    /\ (pk.n - 1) \div (pk.w * pk.w * pk.w) > 0
    /\ pk.y = map_item_to_covering(pk.n - 1, pk.w)
    /\ pk.y > (pk.n - 1) + ((pk.n - 1) \div pk.w)

-----------------------------------------------------------------------------
(* The inner log of the IsoCore run: the slots the stored nodes point to *)

\* the slots the node stored at slot y names as its child nodes (a leaf node names
\* none: the index of its one entry is the id of its item in the data log)
child_slots(y) ==
    IF get_node(iso, fs, y).res.err # "Ok" THEN {}
    ELSE {get_node(iso, fs, y).res.val.children[k].index :
             k \in {j \in 1..Len(get_node(iso, fs, y).res.val.children) :
                       get_node(iso, fs, y).res.val.children[j].node_type = "Branch"}}

\* C35: the stored tree is acyclic and built bottom-up: every child index recorded in
\* the node at inner-log slot y is strictly less than y, so every child or peak lookup
\* made during add_message refers to a node that is already stored and never fails
\* with FutureMessage.
C35_TreeBuiltBottomUp ==
    /\ \A y \in 0..(CoreLen(iso.verkle_core) - 1) : \A c \in child_slots(y) : c < y
    /\ isoAux.add_err # "FutureMessage"

\* the part of C35 about the stored nodes alone: every child slot named by the node at
\* slot y is below y
C35_ChildSlotsBelow ==
    \A y \in 0..(CoreLen(iso.verkle_core) - 1) : \A c \in child_slots(y) : c < y

\* a store loaded after the process ended between the flushes of the data log and of
\* the inner log: its add_message stored a node and failed on a peak lookup
C35_Witness ==
    /\ isoAux.add_err = "FutureMessage"
    /\ isoAux.loaded[2] # map_item_to_covering(isoAux.loaded[1], WIDTH)
    /\ CoreLen(iso.verkle_core) > isoAux.loaded[2]

-----------------------------------------------------------------------------
(* The three logs across an add_message that returns an error *)

\* data_core.len(), verkle_core.len() and sig_core.len()
log_lens(i) == <<CoreLen(i.data_core), CoreLen(i.verkle_core), CoreLen(i.sig_core)>>

\* C36: a failed append leaves no partial record: whenever IsoCore::add_message returns
\* an error (of any kind), data_core.len(), verkle_core.len() and sig_core.len() are
\* all equal to their values before the call.
C36_FailedAppendLeavesNoRecord ==
    [][isoAux'.add_err \notin {"Ok", "none"} => log_lens(iso') = log_lens(iso)]_vars

\* the part of C36 that holds: an add_message refused for its signer changes nothing
C36_SignerMismatchLeavesNoRecord ==
    [][isoAux'.add_err = "SignerMismatch" => log_lens(iso') = log_lens(iso)]_vars

\* an add_message returned an error and the store holds a data message and an inner
\* node without a signature block
C36_Witness ==
    /\ isoAux.add_err \notin {"Ok", "none", "SignerMismatch"}
    /\ CoreLen(iso.data_core) > CoreLen(iso.sig_core) + 1
    /\ CoreLen(iso.verkle_core) > isoAux.loaded[2]

-----------------------------------------------------------------------------
(* The frame index of the NeoDisk writer *)

\* the frames of an index that hold message id
frames_of(frames, id) ==
    {k \in 1..Len(frames) :
        /\ id >= frames[k].first_message_id
        /\ id < frames[k].first_message_id + frames[k].message_count}

\* the ids of the frames tile [0, message_count - current_frame_messages)
index_well_formed(w) ==
    /\ Len(w.frames) > 0 => w.frames[1].first_message_id = 0
    /\ \A k \in 2..Len(w.frames) :
          w.frames[k].first_message_id
             = w.frames[k - 1].first_message_id + w.frames[k - 1].message_count
    /\ Len(w.frames) > 0 =>
          w.frames[Len(w.frames)].first_message_id + w.frames[Len(w.frames)].message_count
             = w.message_count - w.current_frame_messages

\* C37: in every reachable NeoDiskWriter state the frame index is well formed: the
\* first frame has first_message_id 0, each later frame's first_message_id equals the
\* previous frame's first_message_id + message_count, and the last frame's
\* first_message_id + message_count = message_count - current_frame_messages; hence
\* after a flush every id in [0, len()) lies in exactly one frame and find_frame
\* succeeds for it.
C37_FrameIndexWellFormed ==
    ndAux.alive =>
        /\ index_well_formed(nd)
        /\ ndAux.last = "flush" =>
              \A id \in 0..(nd.message_count - 1) :
                  /\ Cardinality(frames_of(nd.frames, id)) = 1
                  /\ find_frame([frames |-> nd.frames], id) \in frames_of(nd.frames, id)
                  /\ Reader_open(ndFile).err = "Ok" =>
                        (id < Reader_len(Reader_open(ndFile).val) =>
                            find_frame(Reader_open(ndFile).val, id) # 0)

\* the part of C37 about the writer alone: its index is well formed in every state, and
\* after a flush every id lies in exactly one frame of that index
C37_WriterIndexWellFormed ==
    ndAux.alive =>
        /\ index_well_formed(nd)
        /\ ndAux.last = "flush" =>
              \A id \in 0..(nd.message_count - 1) :
                  /\ Cardinality(frames_of(nd.frames, id)) = 1
                  /\ find_frame([frames |-> nd.frames], id) \in frames_of(nd.frames, id)

\* after a flush a reader opens the file, reports all four records, and find_frame
\* fails for the first of them
C37_Witness ==
    /\ ndAux.alive
    /\ ndAux.last = "flush"
    /\ index_well_formed(nd)
    /\ nd.message_count = 4
    /\ Reader_open(ndFile).err = "Ok"
    /\ Reader_len(Reader_open(ndFile).val) = 4
    /\ find_frame(Reader_open(ndFile).val, 0) = 0

-----------------------------------------------------------------------------
(* The encoder across a write that returns an error *)

\* C38: if a write through a ListEncoder, MapEncoder or ArrayEncoder returns an error
\* (BlobTooLarge, ContainerFull, Malformed or InvalidStride), the container's element
\* count and the encoder buffer are both as they were before the call, so the
\* container that is finally encoded decodes to exactly the elements whose writes
\* succeeded.
C38_FailedWriteChangesNothing ==
    [][(pk'.err \notin {"Ok", "Panic"} /\ pk.e.stack # <<>>)
          => /\ pk'.e.buf = pk.e.buf
             /\ pk'.e.stack = pk.e.stack]_vars

\* the part of C38 that holds: an ArrayEncoder::push refused for its length changes
\* neither the count nor the buffer
C38_FailedPushChangesNothing ==
    [][(pk'.err \notin {"Ok", "Panic"} /\ pk'.op = "push") => pk'.e = pk.e]_vars

\* a list ended whose array() call was refused for its stride: the count field says 2,
\* one element was written
C38_Witness ==
    /\ pk.done
    /\ pk.closed.kind = "List"
    /\ ~pk.closed.clean
    /\ Len(pk.closed.items) = 1
    /\ pk.closed.count = 2
    /\ decode_container(pk.e.buf, "List").out # pk.closed.items \o <<YieldNone, YieldNone>>

-----------------------------------------------------------------------------
(* neopack/decoder.rs: an iterator and the reader it came from.  A ListIter *)
(* or MapIter reads with a Reader of its own and holds a pointer to its     *)
(* parent: the Reader that list() was called on, or the reader of the       *)
(* iterator whose next() gave it.  Drop skips what is left and writes the   *)
(* position reached into the parent.                                        *)

RECURSIVE drop_iter(_, _, _)
\* one turn of the loop of Drop: an error of the read is ignored; a container read is a
\* temporary iterator, dropped at once, which skips itself and moves this reader
drop_turn(n, remaining, kind) ==
    IF n.y.err = "Ok" /\ n.y.tag \in {"List", "Map"}
    THEN drop_iter([n.it.reader EXCEPT !.pos = drop_iter(n.it.reader, n.y.val[1], n.y.tag)],
                   remaining - 1, kind)
    ELSE drop_iter(n.it.reader, remaining - 1, kind)

\* Drop for ListIter and for MapIter: the position written into the parent
drop_iter(reader, remaining, kind) ==
    IF remaining = 0 THEN reader.pos
    ELSE drop_turn(Iter_next([reader |-> reader, remaining |-> remaining], kind),
                   remaining, kind)

\* elements of the inner container of the inputs
MaxInner == 2

RECURSIVE written(_, _, _)
\* the encoder after n more writes into its innermost scope: list.u8(7), or
\* map.entry("a", |e| e.u8(7))
written(e, kind, n) ==
    IF n = 0 THEN e
    ELSE IF kind = "Map"
    THEN written(Map_entry(e, <<97>>, [fails |-> FALSE, v |-> [tag |-> "U8", val |-> <<7>>]]).e,
                 kind, n - 1)
    ELSE written(List_write(e, [tag |-> "U8", val |-> <<7>>]).e, kind, n - 1)

\* the encoder with an open list of pre elements
iter_head(pre) == written(Encoder_begin([buf |-> <<>>, stack |-> <<>>], "List"), "List", pre)

\* the encoder after a container of kind with n elements was written into the list
iter_inner(pre, kind, n) == scope_end(written(List_begin(iter_head(pre), kind).e, kind, n))

\* the finished list: pre elements, the container, post elements
iter_list(pre, kind, n, post) == scope_end(written(iter_inner(pre, kind, n), "List", post))

\* what next() gives for the k-th written u8, with its key in a map
yield_u8(kind) == Yield("Ok", TRUE, IF kind = "Map" THEN <<97>> ELSE <<>>, "U8", <<7>>)

IterInit ==
    /\ \E pre \in 0..1, kind \in {"List", "Map"}, n \in 0..MaxInner, post \in 0..2 :
          pk = [buf |-> write_scalar(iter_list(pre, kind, n, post).buf, "U8", 9),
                kind |-> kind,
                \* where the outer list and the inner container end
                end |-> Len(iter_list(pre, kind, n, post).buf),
                inner_end |-> Len(iter_inner(pre, kind, n).buf),
                \* what was written into the outer list and into the inner container
                items |-> [k \in 1..pre |-> yield_u8("List")]
                            \o <<Yield("Ok", TRUE, <<>>, kind, <<n>>)>>
                            \o [k \in 1..post |-> yield_u8("List")],
                inner_items |-> [k \in 1..n |-> yield_u8(kind)],
                r |-> [buf |-> write_scalar(iter_list(pre, kind, n, post).buf, "U8", 9),
                       pos |-> 0],
                op |-> "new",
                outer_alive |-> FALSE,
                outer |-> [reader |-> [buf |-> <<>>, pos |-> 0], remaining |-> 0],
                inner_alive |-> FALSE,
                inner |-> [reader |-> [buf |-> <<>>, pos |-> 0], remaining |-> 0],
                got |-> <<>>,          \* what outer.next() gave, Some only
                inner_got |-> <<>>,    \* what inner.next() gave, Some only
                in_order |-> TRUE]     \* outer.next() was never called with the inner alive
    /\ IsoIdle
    /\ CoreIdle
    /\ DiskIdle

\* let mut outer = r.list()?
IterList ==
    /\ pk.op = "new"
    /\ pk' = [pk EXCEPT !.op = "list",
                        !.outer_alive = Reader_iter(pk.r, "List").res.err = "Ok",
                        !.outer = [reader |-> Reader_iter(pk.r, "List").d,
                                   remaining |-> Reader_iter(pk.r, "List").res.val],
                        !.r = Reader_iter(pk.r, "List").d]
    /\ UNCHANGED <<isoVars, coreVars, diskVars>>

\* outer.next(); a container it gives is kept by the caller as inner
IterOuterNext ==
    /\ pk.outer_alive
    /\ LET n == Iter_next(pk.outer, "List")
           container == n.y.err = "Ok" /\ n.y.some /\ n.y.tag \in {"List", "Map"}
       IN  pk' = [pk EXCEPT !.op = "outer.next",
                            !.outer = n.it,
                            !.got = IF n.y.some \/ n.y.err # "Ok" THEN Append(@, n.y) ELSE @,
                            !.in_order = @ /\ ~pk.inner_alive,
                            !.inner_alive = @ \/ container,
                            !.inner = IF container
                                      THEN [reader |-> n.it.reader, remaining |-> n.y.val[1]]
                                      ELSE @,
                            !.inner_got = IF container THEN <<>> ELSE @]
    /\ UNCHANGED <<isoVars, coreVars, diskVars>>

\* inner.next()
IterInnerNext ==
    /\ pk.inner_alive
    /\ pk.inner.remaining > 0
    /\ LET n == Iter_next(pk.inner, pk.kind)
       IN  pk' = [pk EXCEPT !.op = "inner.next",
                            !.inner = n.it,
                            !.inner_got = Append(@, n.y)]
    /\ UNCHANGED <<isoVars, coreVars, diskVars>>

\* inner is dropped while the iterator that gave it is alive: the rest is skipped and
\* the position reached is written into outer.reader
IterInnerDrop ==
    /\ pk.inner_alive
    /\ pk.outer_alive
    /\ pk' = [pk EXCEPT !.op = "inner.drop",
                        !.inner_alive = FALSE,
                        !.outer.reader.pos =
                            drop_iter(pk.inner.reader, pk.inner.remaining, pk.kind)]
    /\ UNCHANGED <<isoVars, coreVars, diskVars>>

\* outer is dropped after the values it gave: the rest is skipped and the position
\* reached is written into r
IterOuterDrop ==
    /\ pk.outer_alive
    /\ ~pk.inner_alive
    /\ pk' = [pk EXCEPT !.op = "outer.drop",
                        !.outer_alive = FALSE,
                        !.r.pos = drop_iter(pk.outer.reader, pk.outer.remaining, "List")]
    /\ UNCHANGED <<isoVars, coreVars, diskVars>>

NextIter == IterList \/ IterOuterNext \/ IterInnerNext \/ IterInnerDrop \/ IterOuterDrop

SpecIter == IterInit /\ [][NextIter]_vars

\* C39: container iterators keep the stream synchronized: for valid input, when a
\* ListIter, MapIter or ArrayIter is dropped after consuming all, some or none of its
\* elements, the parent reader's position is immediately after the container's last
\* byte; and an outer iterator yields each of its elements exactly once even when an
\* element is itself a container, whether the inner iterator was fully consumed,
\* partly consumed, or still alive when outer.next() is called.
C39_IteratorsStaySynchronized ==
    /\ pk.op = "outer.drop" => pk.r.pos = pk.end
    /\ pk.op = "inner.drop" => pk.outer.reader.pos = pk.inner_end
    /\ pk.got = SubSeq(pk.items, 1, Len(pk.got))
    /\ pk.inner_got = SubSeq(pk.inner_items, 1, Len(pk.inner_got))

\* C39 for the runs that drop the inner iterator before they call outer.next() again
C39_SynchronizedWhenDroppedInOrder ==
    pk.in_order =>
        /\ pk.op = "outer.drop" => pk.r.pos = pk.end
        /\ pk.op = "inner.drop" => pk.outer.reader.pos = pk.inner_end
        /\ pk.got = SubSeq(pk.items, 1, Len(pk.got))
        /\ pk.inner_got = SubSeq(pk.inner_items, 1, Len(pk.inner_got))
        /\ (pk.outer_alive /\ pk.outer.remaining = 0 /\ ~pk.inner_alive) => pk.got = pk.items

\* outer.next() was called while the inner list, of which one of two elements was
\* read, was alive, and it gave the inner list's second element as an element of outer
C39_Witness ==
    /\ pk.op = "outer.next"
    /\ ~pk.in_order
    /\ pk.inner_alive
    /\ Len(pk.inner_items) = 2
    /\ Len(pk.inner_got) = 1
    /\ pk.got # SubSeq(pk.items, 1, Len(pk.got))

-----------------------------------------------------------------------------
(* covering.rs: the search loop of decode_covering, one turn at a time *)

\* the node ids the search is started for
MaxNode == 80

\* the turns of the loop the history counts, in each direction
MaxTurns == 2

DecodeInit ==
    /\ \E w \in Widths, y \in 0..MaxNode :
          pk = [w |-> w, y |-> y,
                n |-> (y * (w - 1)) \div w,   \* the approximation the loop starts from
                h |-> 0,
                at |-> "loop",   \* "loop", "found", or "underflow" of n -= 1 at n = 0
                ups |-> 0, downs |-> 0]   \* turns that raised and lowered n, up to MaxTurns
    /\ IsoIdle
    /\ CoreIdle
    /\ DiskIdle

\* one turn of the loop of decode_covering
DecodeTurn ==
    /\ pk.at = "loop"
    /\ LET start == map_item_to_covering(pk.n, pk.w)
           h_max == count_trailing_zeros_base_w(pk.n + 1, pk.w)
       IN  pk' = IF pk.y < start
                 THEN IF pk.n = 0 THEN [pk EXCEPT !.at = "underflow"]
                      ELSE [pk EXCEPT !.n = @ - 1, !.downs = Min(@ + 1, MaxTurns)]
                 ELSE IF pk.y > start + h_max
                 THEN [pk EXCEPT !.n = @ + 1, !.ups = Min(@ + 1, MaxTurns)]
                 ELSE [pk EXCEPT !.at = "found", !.h = pk.y - start]
    /\ UNCHANGED <<isoVars, coreVars, diskVars>>

NextDecode == DecodeTurn

\* the loop runs until it returns
SpecDecode == DecodeInit /\ [][NextDecode]_vars /\ WF_vars(DecodeTurn)

\* C40: for every NodeId y >= 0 and every power-of-two width W > 1, the search loop of
\* decode_covering terminates, and during the search the candidate n is never
\* decremented below 0.
C40_SearchTerminates ==
    /\ <>(pk.at = "found")
    /\ [](pk.at # "underflow" /\ pk.n >= 0)

\* what the loop returns is what decode_covering returns
C40_FoundIsDecodeCovering ==
    pk.at = "found" => <<pk.n, pk.h>> = decode_covering(pk.y, pk.w)

\* a search that moved its candidate more than once and returned a node above a leaf
C40_Witness ==
    /\ pk.at = "found"
    /\ pk.ups = MaxTurns
    /\ pk.downs = 0
    /\ pk.h > 0

====
